---- MODULE Spec2Model ----
(***************************************************************************)
(* A model of the proof subsystem of the honestly repository:              *)
(*   - NullifierRegistry and ConductMeGroup   (conductme/bridge identity.ts)*)
(*   - the Trust Bridge client stubs          (trustBridge.ts)              *)
(*   - the circom circuits ProofOfHumanity, AgeProofLevel3, AgentReputation *)
(* Each subsystem has its own specification; all share one state vector.   *)
(***************************************************************************)
EXTENDS Integers, Sequences, FiniteSets, TLC

(***************************************************************************)
(* Bounds of the model.                                                    *)
(***************************************************************************)
MaxCalls == 2           \* markUsed calls kept in the call log
MaxRegistries == 2      \* NullifierRegistry instances alive at once
NumCallers == 3         \* concurrent callers of markUsed
MaxGroupOps == 3        \* addMember / removeMember calls on the group
MaxSubmissions == 2     \* proofs handed to a verifier that tracks nullifiers
MaxRequests == 2        \* requestProof calls of the Trust Bridge client
MaxUuids == 2           \* crypto.randomUUID() calls
TreeLevels == 2         \* the levels HumanityRegistry is instantiated with
MaxIdentityCalls == 3   \* createIdentity / recoverIdentity / deriveFromHonestlyProof calls
MaxQueries == 3         \* readQuery / writeQuery calls

Nullifiers == {"n1", "n2"}      \* nullifierHash strings handed to the registry
Scopes == {"app1", "app2"}      \* the scope a caller has in mind for a call

VARIABLES
    registries,     \* registries[r]: usedNullifiers of instance r, in insertion order
    imported,       \* imported[r]: the array instance r was imported from
    calls,          \* log of the markUsed calls that returned
    ret,            \* what the last registry call returned
    exported,       \* the array the last export() returned
    caller,         \* caller[c]: a concurrent caller of markUsed on instance 1
    hw,             \* the signals given to ProofOfHumanity
    hp,             \* what proving ProofOfHumanity on hw gave
    aw,             \* the signals given to AgeProofLevel3
    ap,             \* what proving AgeProofLevel3 on aw gave
    leaves,         \* the leaves of the ConductMeGroup's tree, 0 for a removed one
    opLog,          \* the addMember / removeMember calls made so far
    gens,           \* gens[k]: the latest generateMembershipProof call for key k
    verifyLog,      \* the verifyMembershipProof call made last, if any
    submissions,    \* the proofs a verifier took and looked up in registry 1
    browser,        \* typeof window !== "undefined"
    bridgeUrl,      \* TRUST_BRIDGE_URL is a non-empty string
    storage,        \* what localStorage.getItem(STORAGE_KEY) returns
    uuids,          \* number of crypto.randomUUID() calls made
    requests,       \* the requestProof calls, each with the await it stands at
    sent,           \* the bodies POSTed to the Trust Bridge
    verified,       \* the client verifyProof call made last, if any
    cw,             \* a circuit and the signals given to it
    cp,             \* what proving that circuit on those signals gave
    made,           \* log of the identity functions' calls and what they returned
    draws,          \* number of ethers.randomBytes(32) calls made
    imt,            \* the levels of the group's LeanIMT as it keeps them, leaves first
    saved,          \* what the last ConductMeGroup export() returned, and of what
    restored,       \* the group the last ConductMeGroup.import() returned
    queries         \* the readQuery / writeQuery calls, each with its session

registryVars == <<registries, imported, calls, ret, exported>>
callerVars == <<caller>>
humanityVars == <<hw, hp>>
ageVars == <<aw, ap>>
groupVars == <<leaves, opLog, gens, verifyLog, imt>>
persistVars == <<saved, restored>>
clientVars == <<browser, bridgeUrl, storage, uuids, requests, sent, verified>>
circuitVars == <<cw, cp>>
identityVars == <<made, draws>>
vars ==
    <<registryVars, callerVars, humanityVars, ageVars, groupVars, submissions, clientVars,
      circuitVars, identityVars, persistVars, queries>>

\* what an action of one part leaves alone
outsideRegistry ==
    <<callerVars, humanityVars, ageVars, groupVars, submissions, clientVars, circuitVars, identityVars, persistVars, queries>>
outsideCallers ==
    <<imported, calls, ret, exported, humanityVars, ageVars, groupVars, submissions, clientVars, circuitVars, identityVars, persistVars, queries>>
outsideHumanity ==
    <<registryVars, callerVars, ageVars, groupVars, submissions, clientVars, circuitVars, identityVars, persistVars, queries>>
outsideAge ==
    <<registryVars, callerVars, humanityVars, groupVars, submissions, clientVars, circuitVars, identityVars, persistVars, queries>>
outsideGroup ==
    <<registryVars, callerVars, humanityVars, ageVars, submissions, clientVars, circuitVars, identityVars, persistVars, queries>>
outsideSubmissions ==
    <<imported, calls, ret, exported, callerVars, humanityVars, ageVars, groupVars, clientVars, circuitVars, identityVars, persistVars, queries>>
outsideCircuit ==
    <<registryVars, callerVars, humanityVars, ageVars, groupVars, submissions, clientVars, identityVars, persistVars, queries>>
outsideIdentity ==
    <<registryVars, callerVars, humanityVars, ageVars, groupVars, submissions, clientVars,
      circuitVars, persistVars, queries>>
outsideClient == <<registryVars, callerVars, humanityVars, ageVars, groupVars, submissions, circuitVars, identityVars, persistVars, queries>>
outsidePersist ==
    <<registryVars, callerVars, humanityVars, ageVars, groupVars, submissions, clientVars,
      circuitVars, identityVars, queries>>
outsideQueries ==
    <<registryVars, callerVars, humanityVars, ageVars, groupVars, submissions, clientVars,
      circuitVars, identityVars, persistVars>>

(***************************************************************************)
(* JavaScript Set<string>: membership, and add keeping insertion order.    *)
(***************************************************************************)
SetHas(s, x) == \E i \in 1..Len(s) : s[i] = x

SetAdd(s, x) == IF SetHas(s, x) THEN s ELSE Append(s, x)

RECURSIVE AddAll(_, _)
AddAll(s, list) ==
    IF list = <<>> THEN s ELSE AddAll(SetAdd(s, Head(list)), Tail(list))

(***************************************************************************)
(* NullifierRegistry                                                       *)
(***************************************************************************)
\* new NullifierRegistry(): usedNullifiers = new Set()
NewRegistry == <<>>

\* a markUsed without the lookup: every call reports the nullifier fresh
MarkUsedReturnNoLookup(used, n) == TRUE

\* markUsed(nullifierHash): the value returned
MarkUsedReturn(used, n) == IF SetHas(used, n) THEN FALSE ELSE TRUE

\* a markUsed that answers but never records
MarkUsedEffectForgets(used, n) == used

\* a markUsed that empties the set when it refuses
MarkUsedEffectClears(used, n) == IF SetHas(used, n) THEN <<>> ELSE SetAdd(used, n)

\* markUsed(nullifierHash): usedNullifiers after the call
MarkUsedEffect(used, n) == IF SetHas(used, n) THEN used ELSE SetAdd(used, n)

\* isUsed(nullifierHash)
IsUsedReturn(used, n) == SetHas(used, n)

\* an export that lists the nullifier recorded first and no other
ExportReturnFirstOnly(used) == IF used = <<>> THEN <<>> ELSE <<used[1]>>

\* export(): Array.from(this.usedNullifiers)
ExportReturn(used) == [i \in 1..Len(used) |-> used[i]]

\* an import that builds the registry and skips the loop
ImportContentsEmpty(list) == NewRegistry

\* static import(nullifiers): the usedNullifiers of the registry returned
ImportContents(list) == AddAll(NewRegistry, list)

\* the arrays a caller may hand to import, besides one obtained from export()
ImportLists == {<<>>, <<"n1">>, <<"n1", "n1">>, <<"n2", "n1">>}

NoReturn == [op |-> "none", value |-> FALSE]

\* A caller invokes markUsed(n) on instance r with scope s in mind; the method
\* has no scope parameter, so s reaches the log only.
MarkUsed(r, n, s) ==
    /\ Len(calls) < MaxCalls
    /\ r \in 1..Len(registries)
    /\ registries' = [registries EXCEPT ![r] = MarkUsedEffect(registries[r], n)]
    /\ calls' = Append(calls, [reg |-> r, n |-> n, scope |-> s,
                               result |-> MarkUsedReturn(registries[r], n)])
    /\ ret' = [op |-> "markUsed", value |-> MarkUsedReturn(registries[r], n)]
    /\ UNCHANGED <<imported, exported, outsideRegistry>>

IsUsed(r, n) ==
    /\ r \in 1..Len(registries)
    /\ ret' = [op |-> "isUsed", value |-> IsUsedReturn(registries[r], n)]
    /\ UNCHANGED <<registries, imported, calls, exported, outsideRegistry>>

Export(r) ==
    /\ r \in 1..Len(registries)
    /\ exported' = ExportReturn(registries[r])
    /\ ret' = [op |-> "export", value |-> TRUE]
    /\ UNCHANGED <<registries, imported, calls, outsideRegistry>>

Import(list) ==
    /\ Len(registries) < MaxRegistries
    /\ registries' = Append(registries, ImportContents(list))
    /\ imported' = Append(imported, list)
    /\ ret' = [op |-> "import", value |-> TRUE]
    /\ UNCHANGED <<calls, exported, outsideRegistry>>

(***************************************************************************)
(* Concurrent callers of markUsed on one instance.  markUsed is a          *)
(* synchronous method without await, so each call runs to completion       *)
(* before any other caller's code runs; callers interleave only between    *)
(* calls.                                                                  *)
(***************************************************************************)
Callers == 1..NumCallers

Idle == [at |-> "idle", n |-> "", result |-> FALSE]

\* caller c reaches its call of markUsed(n): the call is scheduled
Invoke(c, n) ==
    /\ caller[c].at = "idle"
    /\ caller' = [caller EXCEPT ![c] = [at |-> "pending", n |-> n, result |-> FALSE]]
    /\ UNCHANGED <<registries, outsideCallers>>

\* the scheduled call of caller c runs: lines 232-238 as one step
RunMarkUsed(c) ==
    /\ caller[c].at = "pending"
    /\ registries' = [registries EXCEPT ![1] = MarkUsedEffect(registries[1], caller[c].n)]
    /\ caller' = [caller EXCEPT ![c] = [at |-> "returned", n |-> caller[c].n,
                      result |-> MarkUsedReturn(registries[1], caller[c].n)]]
    /\ UNCHANGED outsideCallers

(***************************************************************************)
(* Field elements.  The circuits compute in the scalar field of BN254, of  *)
(* about 2^254 elements.  A number is written as the integer of least      *)
(* absolute value congruent to it: sign and magnitude, the magnitude a     *)
(* little-endian sequence of digits in base LimbBase without leading zero  *)
(* digits.  -k stands for p - k.  Every magnitude of the model stays below *)
(* 2^80, far from p/2, so no sum or product wraps between representatives, *)
(* and a negative number, being within 2^80 of p, fits no bit width a      *)
(* circuit uses (at most 65).  A Poseidon output is kept as a term: the    *)
(* hash is taken collision free, and its value, spread over the whole      *)
(* field, fits none of those bit widths either.                            *)
(***************************************************************************)
LimbBase == 2 ^ 16

Rest(s) == IF s = <<>> THEN <<>> ELSE Tail(s)
First(s) == IF s = <<>> THEN 0 ELSE Head(s)

RECURSIVE Strip(_)
Strip(m) == IF m # <<>> /\ m[Len(m)] = 0 THEN Strip(SubSeq(m, 1, Len(m) - 1)) ELSE m

RECURSIVE MagOfNat(_)
MagOfNat(k) == IF k = 0 THEN <<>> ELSE <<k % LimbBase>> \o MagOfNat(k \div LimbBase)

RECURSIVE MagAddC(_, _, _)
MagAddC(a, b, c) ==
    IF a = <<>> /\ b = <<>>
    THEN (IF c = 0 THEN <<>> ELSE <<c>>)
    ELSE LET s == First(a) + First(b) + c
         IN  <<s % LimbBase>> \o MagAddC(Rest(a), Rest(b), s \div LimbBase)

MagAdd(a, b) == MagAddC(a, b, 0)

\* a - b for a >= b
RECURSIVE MagSubB(_, _, _)
MagSubB(a, b, borrow) ==
    IF a = <<>>
    THEN <<>>
    ELSE LET d == First(a) - First(b) - borrow
         IN  IF d < 0
             THEN <<d + LimbBase>> \o MagSubB(Rest(a), Rest(b), 1)
             ELSE <<d>> \o MagSubB(Rest(a), Rest(b), 0)

MagSub(a, b) == Strip(MagSubB(a, b, 0))

RECURSIVE MagLess(_, _)
MagLess(a, b) ==
    IF Len(a) # Len(b) THEN Len(a) < Len(b)
    ELSE IF a = <<>> THEN FALSE
    ELSE IF a[Len(a)] # b[Len(b)] THEN a[Len(a)] < b[Len(b)]
    ELSE MagLess(Strip(SubSeq(a, 1, Len(a) - 1)), Strip(SubSeq(b, 1, Len(b) - 1)))

\* a * k for a small factor k (k below 2^14, so a digit product fits an integer)
RECURSIVE MagMulC(_, _, _)
MagMulC(a, k, c) ==
    IF a = <<>>
    THEN MagOfNat(c)
    ELSE LET s == Head(a) * k + c
         IN  <<s % LimbBase>> \o MagMulC(Tail(a), k, s \div LimbBase)

MagMul(a, k) == Strip(MagMulC(a, k, 0))

\* 2^n: digits of 16 bits
MagPow2(n) == [i \in 1..(n \div 16) |-> 0] \o <<2 ^ (n % 16)>>

\* m < 2^n
MagFitsBits(m, n) == MagLess(m, MagPow2(n))

FNum(neg, mag) == [kind |-> "num", neg |-> neg /\ mag # <<>>, mag |-> mag]
FNat(k) == FNum(FALSE, MagOfNat(k))
FPow2(n) == FNum(FALSE, MagPow2(n))
\* the field element of an integer: p - k for -k
FInt(k) == IF k < 0 THEN FNum(TRUE, MagOfNat(0 - k)) ELSE FNat(k)
IsNum(x) == x.kind = "num"

FNeg(x) == FNum(~x.neg, x.mag)

FAdd(x, y) ==
    IF x.neg = y.neg THEN FNum(x.neg, MagAdd(x.mag, y.mag))
    ELSE IF MagLess(x.mag, y.mag) THEN FNum(y.neg, MagSub(y.mag, x.mag))
    ELSE FNum(x.neg, MagSub(x.mag, y.mag))

FSub(x, y) == FAdd(x, FNeg(y))

\* x * k for a small constant k >= 0
FMul(x, k) == FNum(x.neg, MagMul(x.mag, k))

\* the order of the integers, for stating claims (no circuit uses it)
IntLess(x, y) ==
    IF x.neg /\ ~y.neg THEN TRUE
    ELSE IF ~x.neg /\ y.neg THEN FALSE
    ELSE IF x.neg THEN MagLess(y.mag, x.mag)
    ELSE MagLess(x.mag, y.mag)

IntLeq(x, y) == ~IntLess(y, x)

\* x is a number in 0 .. 2^n - 1
InBits(x, n) == IsNum(x) /\ ~x.neg /\ MagFitsBits(x.mag, n)

(***************************************************************************)
(* circomlib                                                               *)
(***************************************************************************)
\* Poseidon(k): a collision-free hash of its k inputs
Poseidon(inputs) == [kind |-> "hash", args |-> inputs]

\* Num2Bits(n): satisfiable when in has an n-bit decomposition
Num2Bits(n, in) == InBits(in, n)

\* LessThan(n): n2b = Num2Bits(n+1) of in[0] + (1<<n) - in[1]; out = 1 - n2b.out[n]
LessThan(n, in0, in1) ==
    IF ~(IsNum(in0) /\ IsNum(in1))
    THEN [sat |-> FALSE, out |-> 0]
    ELSE LET v == FSub(FAdd(in0, FPow2(n)), in1)
         IN  [sat |-> Num2Bits(n + 1, v),
              out |-> IF Num2Bits(n, v) THEN 1 ELSE 0]

\* LessEqThan(n): LessThan(n) of in[0] and in[1] + 1
LessEqThan(n, in0, in1) ==
    IF IsNum(in1) THEN LessThan(n, in0, FAdd(in1, FNat(1))) ELSE [sat |-> FALSE, out |-> 0]

\* GreaterThan(n): LessThan(n) of in[1] and in[0]
GreaterThan(n, in0, in1) == LessThan(n, in1, in0)

\* GreaterEqThan(n): LessThan(n) of in[1] and in[0] + 1
GreaterEqThan(n, in0, in1) ==
    IF IsNum(in0) THEN LessThan(n, in1, FAdd(in0, FNat(1))) ELSE [sat |-> FALSE, out |-> 0]

(***************************************************************************)
(* ProofOfHumanity.  w holds the eleven input signals.  Each component     *)
(* gives its output and whether its own constraints can be met.            *)
(***************************************************************************)
\* identityHasher = Poseidon(1) of identitySecret
HIdentityHasher(w) == Poseidon(<<w.identitySecret>>)

\* identityHasher.out === identityCommitment
HIdentityOk(w) == HIdentityHasher(w) = w.identityCommitment

\* livenessValid <== livenessResult; livenessValid === 1
HLivenessOk(w) == w.livenessResult = FNat(1)

HLivenessHasher(w) == Poseidon(<<w.livenessNonce, w.biometricHash>>)

HCredentialHasher(w) == Poseidon(<<w.credentialHash, w.identitySecret>>)

\* age <== currentTime - timestamp
HAge(w) == FSub(w.currentTime, w.timestamp)

\* ageCheck = LessThan(64) of (age, maxAge); ageCheck.out === 1
HAgeCheck(w) == LessThan(64, HAge(w), w.maxAge)

\* a circuit without the second comparator
HNotFutureMissing(w) == [sat |-> TRUE, out |-> 1]

\* notFuture = LessEqThan(64) of (timestamp, currentTime); notFuture.out === 1
HNotFuture(w) == LessEqThan(64, w.timestamp, w.currentTime)

HFreshnessOk(w) ==
    /\ HAgeCheck(w).sat /\ HAgeCheck(w).out = 1
    /\ HNotFuture(w).sat /\ HNotFuture(w).out = 1

\* a nullifier that leaves the scope out
HNullifierHasherNoScope(w) == Poseidon(<<w.identitySecret, w.externalNullifier>>)

\* nullifierHasher = Poseidon(3) of (identitySecret, scope, externalNullifier)
HNullifierHasher(w) == Poseidon(<<w.identitySecret, w.scope, w.externalNullifier>>)

\* humanityHasher = Poseidon(4)
HHumanityHasher(w) ==
    Poseidon(<<w.identityCommitment, HLivenessHasher(w), HCredentialHasher(w), w.timestamp>>)

NoOutputs == [none |-> TRUE]

\* the template: sat tells whether a satisfying assignment with these inputs
\* exists (the prover gives a proof only then), out its output signals
ProofOfHumanity(w) ==
    LET sat == HIdentityOk(w) /\ HLivenessOk(w) /\ HFreshnessOk(w)
    IN  [sat |-> sat,
         fresh |-> HFreshnessOk(w),
         out |-> IF sat
                 THEN [nullifierHash |-> HNullifierHasher(w),
                       humanityCommitment |-> HHumanityHasher(w),
                       timestampOut |-> w.timestamp,
                       scopeOut |-> w.scope]
                 ELSE NoOutputs]

(***************************************************************************)
(* AgeProofLevel3.  w holds the six input signals as integers.             *)
(***************************************************************************)
AgeScale == 10000
SecondsPerYear == 31557600

\* ageSeconds <== referenceTs - birthTs
AgeSeconds(w) == FSub(FNat(w.referenceTs), FNat(w.birthTs))

\* ageYearsScaled <== ageSeconds * 10000
AgeYearsScaled(w) == FMul(AgeSeconds(w), AgeScale)

\* ageCheck = GreaterThan(32) of (ageYearsScaled, minAge * 10000)
AgeCheck(w) == GreaterThan(32, AgeYearsScaled(w), FMul(FNat(w.minAge), AgeScale))

\* ageRangeCheck = Num2Bits(32) of ageYearsScaled
AgeRangeCheck(w) == Num2Bits(32, AgeYearsScaled(w))

\* identityHasher = Poseidon(4) of (birthTs, salt, userID, documentHash)
AgeIdentityHasher(w) ==
    Poseidon(<<FNat(w.birthTs), FNat(w.salt), FNat(w.userID), FNat(w.documentHash)>>)

AgeProofLevel3(w) ==
    LET sat == AgeCheck(w).sat /\ AgeCheck(w).out = 1 /\ AgeRangeCheck(w)
    IN  [sat |-> sat,
         out |-> IF sat
                 THEN [nullifier |-> AgeIdentityHasher(w), verified |-> AgeCheck(w).out]
                 ELSE NoOutputs]

(***************************************************************************)
(* AgentReputation(n), instantiated with n = 7.                            *)
(***************************************************************************)
ReputationBits == 7

\* a comparison that is strict
RepGteStrict(w) == GreaterThan(ReputationBits, FInt(w.reputationScore), FInt(w.threshold))

\* gte = GreaterEqThan(n) of (reputationScore, threshold)
RepGte(w) == GreaterEqThan(ReputationBits, FInt(w.reputationScore), FInt(w.threshold))

\* repCommitment = Poseidon(4) of (score, interactionCount, positiveCount, salt)
RepCommitment(w) ==
    Poseidon(<<FInt(w.reputationScore), FInt(w.interactionCount),
               FInt(w.positiveCount), FInt(w.salt)>>)

\* nullifierHasher = Poseidon(4) of (agentDIDHash, threshold, salt, timestamp)
RepNullifierHasher(w) ==
    Poseidon(<<FInt(w.agentDIDHash), FInt(w.threshold), FInt(w.salt), FInt(w.timestamp)>>)

AgentReputation(w) ==
    LET sat == /\ Num2Bits(ReputationBits, FInt(w.reputationScore))
               /\ Num2Bits(ReputationBits, FInt(w.threshold))
               /\ RepGte(w).sat
               /\ RepGte(w).out = 1
    IN  [sat |-> sat,
         out |-> IF sat
                 THEN [nullifier |-> RepNullifierHasher(w),
                       verified |-> RepGte(w).out,
                       reputationCommitment |-> RepCommitment(w)]
                 ELSE NoOutputs]

(***************************************************************************)
(* Proving: the witness is fixed at the start, the prover is run once.     *)
(***************************************************************************)
NotProved == [sat |-> FALSE, pending |-> TRUE]

ProveHumanity ==
    /\ hp = NotProved
    /\ hp' = ProofOfHumanity(hw)
    /\ UNCHANGED <<hw, outsideHumanity>>

ProveAge ==
    /\ ap = NotProved
    /\ ap' = AgeProofLevel3(aw)
    /\ UNCHANGED <<aw, outsideAge>>

\* the inputs tried: values at and around every boundary of the comparators
Two64 == FPow2(64)
HSecrets == {FNat(11), FNat(12)}
HCommitments == {Poseidon(<<s>>) : s \in HSecrets} \cup {FNat(11)}
HLiveness == {FNat(0), FNat(1), FNat(2)}
HTimes == {FNat(0), FNat(100), FNat(101), FNat(400), FSub(Two64, FNat(1)), Two64}
HMaxAges == {FNat(0), FNat(1), FNat(300), FSub(Two64, FNat(1))}
HScopes == {FNat(1), FNat(2)}

HumanityInputs ==
    [identitySecret : HSecrets, livenessNonce : {FNat(3)}, livenessResult : HLiveness,
     biometricHash : {FNat(4)}, credentialHash : {FNat(5)},
     identityCommitment : HCommitments, timestamp : HTimes, maxAge : HMaxAges,
     currentTime : HTimes, scope : HScopes, externalNullifier : {FNat(7)}]

AdultSeconds == 18 * SecondsPerYear

AgeInputs ==
    [birthTs : {0, 1000, AdultSeconds},
     salt : {1, 2},
     referenceTs : {18, 19, 1018, 1019, 429496, 429497,
                    AdultSeconds - 1, AdultSeconds, AdultSeconds + 1000},
     minAge : {0, 18, 21},
     userID : {7},
     documentHash : {9}]

NoWitness == [none |-> TRUE]

(***************************************************************************)
(* ConductMeGroup over @semaphore-protocol/group (a LeanIMT with Poseidon) *)
(* and @semaphore-protocol/proof (Groth16).  Commitments reach the group   *)
(* as decimal strings, modelled as sequences of digits.                    *)
(***************************************************************************)
\* BigInt(s) for a string of decimal digits
RECURSIVE BigIntOf(_)
BigIntOf(s) == IF s = <<>> THEN 0 ELSE BigIntOf(SubSeq(s, 1, Len(s) - 1)) * 10 + s[Len(s)]

\* n.toString() for a bigint n >= 0
RECURSIVE DecimalOf(_)
DecimalOf(n) == IF n < 10 THEN <<n>> ELSE DecimalOf(n \div 10) \o <<n % 10>>

\* the private keys of the identities that exist
Identities == {1, 2}

\* the identity a private key gives: Identity.import(privateKey).commitment and
\* .secretScalar, both derived from the key by hashing
CommitmentOfKey(k) == 4 + k
SecretScalarOfKey(k) == 40 + k

\* a ConductMeIdentity as createIdentity returns it
IdentityOf(k) ==
    [commitment |-> DecimalOf(CommitmentOfKey(k)), privateKey |-> k,
     secretScalar |-> DecimalOf(SecretScalarOfKey(k))]

\* Group.indexOf: the first leaf equal to the member, 0 if none (-1 in the code)
IndexOf(ls, member) ==
    IF \E i \in 1..Len(ls) : ls[i] = member
    THEN CHOOSE i \in 1..Len(ls) : ls[i] = member /\ \A j \in 1..(i - 1) : ls[j] # member
    ELSE 0

\* one level of the LeanIMT up: a node without a right sibling is carried up
LevelUp(nodes) ==
    [i \in 1..((Len(nodes) + 1) \div 2) |->
        IF 2 * i <= Len(nodes)
        THEN Poseidon(<<nodes[2 * i - 1], nodes[2 * i]>>)
        ELSE nodes[2 * i - 1]]

RECURSIVE ImtRoot(_)
ImtRoot(nodes) == IF Len(nodes) = 1 THEN nodes[1] ELSE ImtRoot(LevelUp(nodes))

\* Group.root: 0 for an empty group
GroupRoot(ls) == IF ls = <<>> THEN FNat(0) ELSE ImtRoot([i \in 1..Len(ls) |-> FNat(ls[i])])

\* the LeanIMT as the library keeps it: nodes[level], leaves first, the root
\* alone in the last level; an empty tree has the one level of no leaves
EmptyTree == <<<<>>>>

\* Math.ceil(Math.log2(n)) for n >= 1
RECURSIVE CeilLog2(_)
CeilLog2(n) == IF n <= 1 THEN 0 ELSE 1 + CeilLog2((n + 1) \div 2)

\* this._nodes[level][index] = node, index counted from 0
SetNode(level, index, node) ==
    IF index = Len(level) THEN Append(level, node) ELSE [level EXCEPT ![index + 1] = node]

\* the loop of LeanIMT.insert: the new node is hashed with its left sibling
\* when it is a right child, and carried up as it is otherwise
RECURSIVE ImtInsertLoop(_, _, _, _)
ImtInsertLoop(ns, level, index, node) ==
    IF level = Len(ns)
    THEN [ns EXCEPT ![level] = <<node>>]
    ELSE ImtInsertLoop([ns EXCEPT ![level] = SetNode(ns[level], index, node)],
                       level + 1, index \div 2,
                       IF index % 2 = 1 THEN Poseidon(<<ns[level][index], node>>) ELSE node)

\* LeanIMT.insert(leaf): a level is added when the leaves no longer fit
ImtInsert(ns, leaf) ==
    ImtInsertLoop(IF Len(ns) - 1 < CeilLog2(Len(ns[1]) + 1) THEN Append(ns, <<>>) ELSE ns,
                  1, Len(ns[1]), leaf)

\* the loop of LeanIMT.update: a left child is hashed with its right sibling
\* if there is one
RECURSIVE ImtUpdateLoop(_, _, _, _)
ImtUpdateLoop(ns, level, index, node) ==
    IF level = Len(ns)
    THEN [ns EXCEPT ![level] = <<node>>]
    ELSE ImtUpdateLoop([ns EXCEPT ![level] = SetNode(ns[level], index, node)],
                       level + 1, index \div 2,
                       IF index % 2 = 1 THEN Poseidon(<<ns[level][index], node>>)
                       ELSE IF index + 2 <= Len(ns[level])
                            THEN Poseidon(<<node, ns[level][index + 2]>>)
                            ELSE node)

\* an update that writes the leaf and leaves the nodes above as they were
ImtUpdateLeafOnly(ns, index, leaf) == [ns EXCEPT ![1] = SetNode(ns[1], index, leaf)]

\* LeanIMT.update(index, leaf), index counted from 0
ImtUpdate(ns, index, leaf) == ImtUpdateLoop(ns, 1, index, leaf)

\* Group.root of the tree as kept: the one node of the last level
NodesRoot(ns) == IF ns[1] = <<>> THEN FNat(0) ELSE ns[Len(ns)][1]

\* size(): Group.size, the number of leaves of the tree, removed ones included
Size(ns) == Len(ns[1])

\* the number of siblings of the Merkle proof of the leaf at index idx (from 0)
\* in a level of n nodes
RECURSIVE SiblingCount(_, _)
SiblingCount(n, idx) ==
    IF n <= 1 THEN 0
    ELSE (IF idx % 2 = 1 \/ idx + 1 < n THEN 1 ELSE 0) + SiblingCount((n + 1) \div 2, idx \div 2)

\* generateProof: merkleTreeDepth = merkleProofLength !== 0 ? merkleProofLength : 1
ProofDepth(ls, index) ==
    IF SiblingCount(Len(ls), index - 1) # 0 THEN SiblingCount(Len(ls), index - 1) ELSE 1

\* the Semaphore nullifier: Poseidon(scope, secret)
SemaphoreNullifier(k, scope) == Poseidon(<<[kind |-> "text", text |-> scope], FNat(SecretScalarOfKey(k))>>)

\* Groth16, idealised: the points of a proof verify for exactly the public
\* signals (and tree depth) of the satisfied statement they were made for
Groth16Points(depth, root, nullifier, message, scope) ==
    [depth |-> depth, root |-> root, nullifier |-> nullifier,
     message |-> message, scope |-> scope]

\* addMember(commitment): Group.addMember(BigInt(commitment)), which refuses 0
AddMemberThrows(c) == BigIntOf(c) = 0

AddMemberLeaves(ls, c) == IF AddMemberThrows(c) THEN ls ELSE Append(ls, BigIntOf(c))

AddMemberNodes(ns, c) == IF AddMemberThrows(c) THEN ns ELSE ImtInsert(ns, FNat(BigIntOf(c)))

\* a removeMember that finds the member and leaves the tree as it is
RemoveMemberLeavesNoop(ls, c) == ls

\* a removeMember that refuses a commitment indexOf does not find
RemoveMemberThrowsAbsent(ls, c) == IndexOf(ls, BigIntOf(c)) = 0 \/ BigIntOf(c) = 0

\* removeMember(commitment): if indexOf finds it, Group.removeMember(index),
\* which sets the leaf to 0 (and refuses a leaf that is 0 already)
RemoveMemberThrows(ls, c) == IndexOf(ls, BigIntOf(c)) # 0 /\ BigIntOf(c) = 0

RemoveMemberLeaves(ls, c) ==
    IF IndexOf(ls, BigIntOf(c)) # 0 /\ ~RemoveMemberThrows(ls, c)
    THEN [ls EXCEPT ![IndexOf(ls, BigIntOf(c))] = 0]
    ELSE ls

\* the tree of a list of leaves inserted one after the other
RECURSIVE ImtOfLeaves(_)
ImtOfLeaves(ls) ==
    IF ls = <<>> THEN EmptyTree
    ELSE ImtInsert(ImtOfLeaves(SubSeq(ls, 1, Len(ls) - 1)), FNat(ls[Len(ls)]))

\* a removeMember that drops the leaf and rebuilds the tree of the others
RemoveMemberNodesCompacting(ns, ls, c) ==
    IF IndexOf(ls, BigIntOf(c)) # 0 /\ ~RemoveMemberThrows(ls, c)
    THEN ImtOfLeaves(SubSeq(ls, 1, IndexOf(ls, BigIntOf(c)) - 1)
                        \o SubSeq(ls, IndexOf(ls, BigIntOf(c)) + 1, Len(ls)))
    ELSE ns

RemoveMemberNodes(ns, ls, c) ==
    IF IndexOf(ls, BigIntOf(c)) # 0 /\ ~RemoveMemberThrows(ls, c)
    THEN ImtUpdate(ns, IndexOf(ls, BigIntOf(c)) - 1, FNat(0))
    ELSE ns

\* hasMember(commitment)
HasMember(ls, c) == IndexOf(ls, BigIntOf(c)) # 0

\* getRoot()
GetRoot(ls) == GroupRoot(ls)

\* the commitments callers pass: those of the identities, one of them also
\* with a leading zero, and "0"
MemberStrings == {IdentityOf(k).commitment : k \in Identities}
CommitmentStrings == MemberStrings \cup {<<0>> \o IdentityOf(1).commitment, <<0>>}

AddMember(c) ==
    /\ Len(opLog) < MaxGroupOps
    /\ leaves' = AddMemberLeaves(leaves, c)
    /\ imt' = AddMemberNodes(imt, c)
    /\ opLog' = Append(opLog, [op |-> "add", member |-> BigIntOf(c),
                               found |-> HasMember(leaves, c),
                               threw |-> AddMemberThrows(c)])
    /\ UNCHANGED <<gens, verifyLog, outsideGroup>>

RemoveMember(c) ==
    /\ Len(opLog) < MaxGroupOps
    /\ leaves' = RemoveMemberLeaves(leaves, c)
    /\ imt' = RemoveMemberNodes(imt, leaves, c)
    /\ opLog' = Append(opLog, [op |-> "remove", member |-> BigIntOf(c),
                               found |-> HasMember(leaves, c),
                               threw |-> RemoveMemberThrows(leaves, c)])
    /\ UNCHANGED <<gens, verifyLog, outsideGroup>>

NotGenerated ==
    [at |-> 0, signal |-> "", ext |-> "", status |-> "none", root |-> FNat(0), depth |-> 0]

\* generateMembershipProof(identity, signal, externalNullifier), up to the first
\* await of generateProof: Identity.import, group.indexOf and the Merkle proof
\* are taken from the group as it is now; a commitment that is no leaf throws.
\* gens[k] is the latest call for the identity with key k.
GenerateStart(k, signal, ext) ==
    /\ gens[k].status # "proving"
    /\ LET index == IndexOf(leaves, CommitmentOfKey(IdentityOf(k).privateKey))
       IN  gens' = [gens EXCEPT ![k] =
                [at |-> Len(opLog), signal |-> signal, ext |-> ext,
                 status |-> IF index = 0 THEN "threw" ELSE "proving",
                 root |-> IF index = 0 THEN FNat(0) ELSE GroupRoot(leaves),
                 depth |-> IF index = 0 THEN 0 ELSE ProofDepth(leaves, index)]]
    /\ UNCHANGED <<leaves, opLog, verifyLog, imt, outsideGroup>>

\* the prover finishes and the promise resolves with the SignalProof
GenerateFinish(k) ==
    /\ gens[k].status = "proving"
    /\ gens' = [gens EXCEPT ![k].status = "proved"]
    /\ UNCHANGED <<leaves, opLog, verifyLog, imt, outsideGroup>>

\* the SignalProof the call for key k resolved with (lines 176-183)
SignalProofOf(k) ==
    LET nullifier == SemaphoreNullifier(k, gens[k].ext)
    IN  [proof |-> Groth16Points(gens[k].depth, gens[k].root, nullifier,
                                 gens[k].signal, gens[k].ext),
         nullifierHash |-> nullifier,
         signal |-> gens[k].signal,
         externalNullifier |-> gens[k].ext,
         merkleTreeRoot |-> gens[k].root,
         merkleTreeDepth |-> gens[k].depth]

NoPoints == [depth |-> 0, root |-> FNat(0), nullifier |-> FNat(0), message |-> "", scope |-> ""]

\* what a caller may hand to verifyMembershipProof, made from a proof it holds:
\* the proof itself, the proof with its root replaced by the group's current
\* root, the proof with other points, and an object without points
Submitted(k, how) ==
    CASE how = "asis" -> [ok |-> TRUE, sp |-> SignalProofOf(k)]
      [] how = "root" -> [ok |-> TRUE, sp |-> [SignalProofOf(k) EXCEPT !.merkleTreeRoot = GroupRoot(leaves)]]
      [] how = "points" -> [ok |-> TRUE, sp |-> [SignalProofOf(k) EXCEPT !.proof = NoPoints]]
      [] how = "malformed" -> [ok |-> FALSE, sp |-> SignalProofOf(k)]

Hows == {"asis", "root", "points", "malformed"}

\* verifyMembershipProof(signalProof): Semaphore's verifyProof on the fields of
\* the proof handed in; a depth of 0 or undefined is taken as 20.  The library
\* throws on an object of the wrong shape and otherwise runs the Groth16 check.
VerifyMembershipProof(in) ==
    IF ~in.ok
    THEN "throws"
    ELSE LET depth == IF in.sp.merkleTreeDepth = 0 THEN 20 ELSE in.sp.merkleTreeDepth
         IN  IF in.sp.proof = Groth16Points(depth, in.sp.merkleTreeRoot, in.sp.nullifierHash,
                                            in.sp.signal, in.sp.externalNullifier)
             THEN "true"
             ELSE "false"

\* a holder of the proof made for key k hands it, or a variant, to the verifier
Verify(k, how) ==
    /\ gens[k].status = "proved"
    /\ verifyLog' =
            <<[key |-> k, how |-> how, at |-> gens[k].at,
               stale |-> GetRoot(leaves) # SignalProofOf(k).merkleTreeRoot,
               result |-> VerifyMembershipProof(Submitted(k, how))]>>
    /\ UNCHANGED <<leaves, opLog, gens, imt, outsideGroup>>

Signals == {"vote"}
ExternalNullifiers == {"poll1"}

(***************************************************************************)
(* A verifier that accepts a proof of one of the three circuits with a     *)
(* nullifier output when the proof is valid and markUsed says the          *)
(* nullifier is fresh.  A proof exists only for a satisfying witness.      *)
(***************************************************************************)
(***************************************************************************)
(* HumanityRegistry(levels).  w holds identitySecret, pathElements,        *)
(* pathIndices and root.                                                   *)
(***************************************************************************)
\* leafHasher = Poseidon(1) of identitySecret
RegLeafHasher(w) == Poseidon(<<w.identitySecret>>)

\* isRight * (isRight - 1) === 0
RegIsBinary(isRight) == isRight = FNat(0) \/ isRight = FNat(1)

\* a + isRight * (b - a), for the two values the constraint on isRight leaves
RegSelect(isRight, a, b) == IF isRight = FNat(0) THEN a ELSE b

\* a selection with the two sides exchanged
RegLeftSwapped(isRight, cur, el) == RegSelect(isRight, el, cur)

\* left <== hashIter[i] + isRight * (pathElements[i] - hashIter[i])
RegLeft(isRight, cur, el) == RegSelect(isRight, cur, el)

\* right <== pathElements[i] + isRight * (hashIter[i] - pathElements[i])
RegRight(isRight, cur, el) == RegSelect(isRight, el, cur)

\* hashIter[i]: the leaf for i = 0, pathHashers[i - 1].out above it
RECURSIVE RegHashIter(_, _)
RegHashIter(w, i) ==
    IF i = 0 THEN RegLeafHasher(w)
    ELSE Poseidon(<<RegLeft(w.pathIndices[i], RegHashIter(w, i - 1), w.pathElements[i]),
                    RegRight(w.pathIndices[i], RegHashIter(w, i - 1), w.pathElements[i])>>)

\* a nullifier of the identity alone
RegNullifierHasherNoRoot(w) == Poseidon(<<w.identitySecret>>)

\* nullifierHasher = Poseidon(2) of (identitySecret, root)
RegNullifierHasher(w) == Poseidon(<<w.identitySecret, w.root>>)

HumanityRegistry(levels, w) ==
    LET sat == /\ \A i \in 1..levels : RegIsBinary(w.pathIndices[i])
               /\ w.root = RegHashIter(w, levels)
    IN  [sat |-> sat,
         out |-> IF sat
                 THEN [nullifier |-> RegNullifierHasher(w), membershipProof |-> RegLeafHasher(w)]
                 ELSE NoOutputs]

(***************************************************************************)
(* The Merkle tree the registry's paths are taken from: a binary tree of   *)
(* the given levels over the commitments in order, empty leaves being 0.   *)
(***************************************************************************)
TreePadded(ls, levels) == [i \in 1..(2 ^ levels) |-> IF i <= Len(ls) THEN ls[i] ELSE FNat(0)]

TreeLayer(nodes) == [i \in 1..(Len(nodes) \div 2) |-> Poseidon(<<nodes[2 * i - 1], nodes[2 * i]>>)]

RECURSIVE TreeRootOf(_)
TreeRootOf(nodes) == IF Len(nodes) = 1 THEN nodes[1] ELSE TreeRootOf(TreeLayer(nodes))

TreeRoot(ls, levels) == TreeRootOf(TreePadded(ls, levels))

\* the siblings from the leaf at position index (from 0) up to the root
RECURSIVE TreeSiblings(_, _)
TreeSiblings(nodes, index) ==
    IF Len(nodes) = 1 THEN <<>>
    ELSE <<IF index % 2 = 0 THEN nodes[index + 2] ELSE nodes[index]>>
            \o TreeSiblings(TreeLayer(nodes), index \div 2)

\* pathFor: 0 where the node is a left child, 1 where it is a right child
PathElementsFor(ls, levels, index) == TreeSiblings(TreePadded(ls, levels), index)
PathIndicesFor(levels, index) == [i \in 1..levels |-> FNat((index \div (2 ^ (i - 1))) % 2)]

Circuit(name, w) ==
    CASE name = "humanity" -> ProofOfHumanity(w)
      [] name = "age" -> AgeProofLevel3(w)
      [] name = "reputation" -> AgentReputation(w)
      [] name = "registry" -> HumanityRegistry(TreeLevels, w)

NullifierOf(name, w) ==
    CASE name = "humanity" -> Circuit(name, w).out.nullifierHash
      [] name = "age" -> Circuit(name, w).out.nullifier
      [] name = "reputation" -> Circuit(name, w).out.nullifier

\* whose proof it is
IdentityIn(name, w) ==
    CASE name = "humanity" -> w.identitySecret
      [] name = "age" -> FNat(w.userID)
      [] name = "reputation" -> FNat(w.agentDIDHash)

\* the scope it is made for: the public inputs that name the context
ScopeIn(name, w) ==
    CASE name = "humanity" -> <<w.scope, w.externalNullifier>>
      [] name = "age" -> <<FNat(w.documentHash), FNat(w.minAge), FNat(w.referenceTs)>>
      [] name = "reputation" -> <<FNat(w.threshold), FNat(w.timestamp)>>

Witnesses(name) ==
    CASE name = "humanity" ->
            {w \in [identitySecret : HSecrets, livenessNonce : {FNat(3), FNat(4)},
                    livenessResult : {FNat(1)}, biometricHash : {FNat(4)},
                    credentialHash : {FNat(5)}, identityCommitment : HCommitments,
                    timestamp : {FNat(100), FNat(101)}, maxAge : {FNat(300)},
                    currentTime : {FNat(101)}, scope : HScopes,
                    externalNullifier : {FNat(7)}] : TRUE}
      [] name = "age" ->
            [birthTs : {0, 1}, salt : {1, 2}, referenceTs : {100}, minAge : {18},
             userID : {7, 8}, documentHash : {9}]
      [] name = "reputation" ->
            [reputationScore : {40, 90}, salt : {1, 2}, interactionCount : {10},
             positiveCount : {9}, threshold : {50}, agentDIDHash : {21, 22},
             timestamp : {1000}]

Circuits == {"humanity", "age", "reputation"}

SubmitProof(name, w) ==
    /\ Len(submissions) < MaxSubmissions
    /\ Circuit(name, w).sat
    /\ registries' = [registries EXCEPT ![1] = MarkUsedEffect(registries[1], NullifierOf(name, w))]
    /\ submissions' = Append(submissions,
            [circuit |-> name, identity |-> IdentityIn(name, w), scope |-> ScopeIn(name, w),
             nullifier |-> NullifierOf(name, w),
             accepted |-> MarkUsedReturn(registries[1], NullifierOf(name, w))])
    /\ UNCHANGED outsideSubmissions

(***************************************************************************)
(* AntiSybil.  w holds identitySecret, epoch and actionId.  The template   *)
(* has no constraint besides its three hashes, so every w has a proof.     *)
(***************************************************************************)
\* idHasher = Poseidon(1) of identitySecret
SybilIdHasher(w) == Poseidon(<<w.identitySecret>>)

\* an epoch nullifier that also hashes the action
SybilEpochHasherWithAction(w) == Poseidon(<<w.identitySecret, w.epoch, w.actionId>>)

\* epochHasher = Poseidon(2) of (identitySecret, epoch)
SybilEpochHasher(w) == Poseidon(<<w.identitySecret, w.epoch>>)

\* actionHasher = Poseidon(3) of (identitySecret, epoch, actionId)
SybilActionHasher(w) == Poseidon(<<w.identitySecret, w.epoch, w.actionId>>)

AntiSybil(w) ==
    [sat |-> TRUE,
     out |-> [epochNullifier |-> SybilEpochHasher(w),
              actionNullifier |-> SybilActionHasher(w),
              identityCommitment |-> SybilIdHasher(w)]]

SybilInputs ==
    [identitySecret : HSecrets, epoch : {FNat(1), FNat(2)}, actionId : {FNat(1), FNat(2)}]

\* the output a verifier hands to markUsed: one proof per epoch, or one per
\* epoch and action
SybilPolicies == {"epoch", "action"}

SybilNullifier(w, policy) ==
    IF policy = "epoch" THEN AntiSybil(w).out.epochNullifier
    ELSE AntiSybil(w).out.actionNullifier

\* a verifier takes an AntiSybil proof and accepts it when markUsed says the
\* nullifier of its policy is fresh
SubmitAntiSybil(w, policy) ==
    /\ Len(submissions) < MaxSubmissions
    /\ AntiSybil(w).sat
    /\ registries' = [registries EXCEPT ![1] = MarkUsedEffect(registries[1], SybilNullifier(w, policy))]
    /\ submissions' = Append(submissions,
            [circuit |-> "antisybil", policy |-> policy,
             identity |-> AntiSybil(w).out.identityCommitment,
             epoch |-> w.epoch, actionId |-> w.actionId,
             nullifier |-> SybilNullifier(w, policy),
             accepted |-> MarkUsedReturn(registries[1], SybilNullifier(w, policy))])
    /\ UNCHANGED outsideSubmissions

\* the position (from 0) of the leaf of secret s in the tree of leaves ls
RegIndexOf(ls, s) == (CHOOSE i \in 1..Len(ls) : ls[i] = RegLeafHasher([identitySecret |-> s])) - 1

\* the signals of the member with secret s for the tree of leaves ls
RegWitness(ls, s) ==
    [identitySecret |-> s,
     pathElements |-> PathElementsFor(ls, TreeLevels, RegIndexOf(ls, s)),
     pathIndices |-> PathIndicesFor(TreeLevels, RegIndexOf(ls, s)),
     root |-> TreeRoot(ls, TreeLevels)]

\* a member of the tree as it is now proves HumanityRegistry; the verifier
\* accepts the proof when markUsed says its nullifier is fresh
SubmitRegistryProof(ls, s) ==
    /\ Len(submissions) < MaxSubmissions
    /\ \E i \in 1..Len(ls) : ls[i] = RegLeafHasher([identitySecret |-> s])
    /\ HumanityRegistry(TreeLevels, RegWitness(ls, s)).sat
    /\ LET out == HumanityRegistry(TreeLevels, RegWitness(ls, s)).out
       IN  /\ registries' = [registries EXCEPT ![1] = MarkUsedEffect(registries[1], out.nullifier)]
           /\ submissions' = Append(submissions,
                   [circuit |-> "registry", identity |-> out.membershipProof,
                    root |-> RegWitness(ls, s).root, nullifier |-> out.nullifier,
                    accepted |-> MarkUsedReturn(registries[1], out.nullifier)])
    /\ UNCHANGED outsideSubmissions

\* the prover is run once on the signals chosen at the start
ProveCircuit ==
    /\ cp = NotProved
    /\ cp' = Circuit(cw.name, cw.w)
    /\ UNCHANGED <<cw, outsideCircuit>>

\* scores and thresholds at and around 0, 2^7 and each other; -1 is p - 1
ReputationInputs ==
    [reputationScore : {-1, 0, 49, 50, 51, 127, 128, 255, 256},
     threshold : {-1, 0, 50, 127, 128, 200},
     salt : {1, 2}, interactionCount : {10}, positiveCount : {9},
     agentDIDHash : {21}, timestamp : {1000}]

\* the trees tried: up to three commitments Poseidon(secret) in any order
RegSecrets == {FNat(11), FNat(12), FNat(13)}
RegTrees ==
    {ls \in UNION {[1..n -> {Poseidon(<<s>>) : s \in RegSecrets}] : n \in 1..3} :
        \A i, j \in 1..Len(ls) : ls[i] = ls[j] => i = j}

\* a secret with the path of some position of some tree, with any indices and
\* with the tree's root or another value as root
RegistryInputs ==
    {[tree |-> ls, index |-> index,
      w |-> [identitySecret |-> s,
             pathElements |-> PathElementsFor(ls, TreeLevels, index),
             pathIndices |-> ix,
             root |-> IF ofTree THEN TreeRoot(ls, TreeLevels) ELSE FNat(0)]] :
        s \in RegSecrets, ls \in RegTrees, index \in 0..2,
        ix \in [1..TreeLevels -> {FNat(0), FNat(1), FNat(2)}],
        ofTree \in BOOLEAN}

(***************************************************************************)
(* The Trust Bridge client.  JavaScript values are records tagged with     *)
(* their type; a string made by randomUUID carries the number of the call. *)
(***************************************************************************)
Null == [type |-> "null"]
Undefined == [type |-> "undefined"]
EmptyObject == [type |-> "object"]
Uuid(n) == [type |-> "string", uuid |-> n]

\* v.f
Field(v, f) == IF v.type = "object" /\ f \in DOMAIN v THEN v[f] ELSE Undefined

\* JSON.stringify(v) and the other strings localStorage may hold
JsonStringify(v) == [type |-> "string", text |-> "json", value |-> v]
GarbageText == [type |-> "string", text |-> "garbage"]
EmptyText == [type |-> "string", text |-> "empty"]
NoItem == Null

JsonParseThrows(raw) == raw.text # "json"
JsonParse(raw) == raw.value

IsBrowser == browser

\* loadIdentity(): null outside a browser, for no or an empty entry and for
\* an entry that is not JSON; otherwise whatever the entry parses to
LoadIdentity ==
    IF ~IsBrowser THEN Null
    ELSE IF storage = NoItem \/ storage = EmptyText THEN Null
    ELSE IF JsonParseThrows(storage) THEN Null
    ELSE JsonParse(storage)

\* createIdentity(): commitment and privateKey are both the seed
NewIdentity(seed) == [type |-> "object", commitment |-> seed, privateKey |-> seed]

CreateIdentityStorage(identity) == IF IsBrowser THEN JsonStringify(identity) ELSE storage

\* requestProof without a bridge: an empty proof, the commitment as nullifier
LocalResponse(identity) ==
    [type |-> "object", proof |-> EmptyObject, publicSignals |-> EmptyObject,
     nullifierHash |-> Field(identity, "commitment")]

RequestBody(signal, identity) == [signal |-> signal, commitment |-> Field(identity, "commitment")]

\* what the bridge's prover answers to a body, and the other JSON it may send
BridgeProof(body) == [type |-> "proof", signal |-> body.signal, commitment |-> body.commitment]
BridgeSignals(body) == [type |-> "signals", signal |-> body.signal, commitment |-> body.commitment]
BridgeResponse(body) ==
    [type |-> "object", proof |-> BridgeProof(body), publicSignals |-> BridgeSignals(body),
     nullifierHash |-> [type |-> "string", nullifierOf |-> body.commitment]]

NoResult == [type |-> "none"]

\* requestProof(signal) up to its first await: loadIdentity() has run
RequestProof(signal) ==
    /\ Len(requests) < MaxRequests
    /\ requests' = Append(requests,
            [signal |-> signal, pc |-> "awaitLoad", identity |-> LoadIdentity,
             result |-> NoResult])
    /\ UNCHANGED <<browser, bridgeUrl, storage, uuids, sent, verified, outsideClient>>

\* requestProof from the identity on: the local answer, or the POST
WithIdentity(i, identity) ==
    IF ~bridgeUrl
    THEN /\ requests' = [requests EXCEPT ![i] =
                [signal |-> @.signal, pc |-> "returned", identity |-> identity,
                 result |-> LocalResponse(identity)]]
         /\ sent' = sent
    ELSE /\ requests' = [requests EXCEPT ![i] =
                [signal |-> @.signal, pc |-> "awaitFetch", identity |-> identity,
                 result |-> NoResult]]
         /\ sent' = Append(sent, RequestBody(requests[i].signal, identity))

\* the await of loadIdentity() resumes: a loaded value that is not null is the
\* identity; for null createIdentity() runs up to the next await
ResumeLoaded(i) ==
    /\ requests[i].pc = "awaitLoad"
    /\ IF requests[i].identity # Null
       THEN /\ WithIdentity(i, requests[i].identity)
            /\ UNCHANGED <<storage, uuids>>
       ELSE /\ uuids < MaxUuids
            /\ uuids' = uuids + 1
            /\ storage' = CreateIdentityStorage(NewIdentity(Uuid(uuids + 1)))
            /\ requests' = [requests EXCEPT ![i] =
                    [signal |-> @.signal, pc |-> "awaitCreate",
                     identity |-> NewIdentity(Uuid(uuids + 1)), result |-> NoResult]]
            /\ sent' = sent
    /\ UNCHANGED <<browser, bridgeUrl, verified, outsideClient>>

\* the await of createIdentity() resumes
ResumeCreated(i) ==
    /\ requests[i].pc = "awaitCreate"
    /\ WithIdentity(i, requests[i].identity)
    /\ UNCHANGED <<browser, bridgeUrl, storage, uuids, verified, outsideClient>>

FetchOutcomes == {"ok", "notok", "rejects"}

\* fetch settles: a rejection and a response that is not ok both throw
FetchSettles(i, outcome) ==
    /\ requests[i].pc = "awaitFetch"
    /\ requests' = [requests EXCEPT ![i].pc = IF outcome = "ok" THEN "awaitJson" ELSE "threw"]
    /\ UNCHANGED <<browser, bridgeUrl, storage, uuids, sent, verified, outsideClient>>

JsonOutcomes == {"proof", "empty", "invalid"}

\* res.json() settles: the data is returned as it is
JsonSettles(i, outcome) ==
    /\ requests[i].pc = "awaitJson"
    /\ requests' = [requests EXCEPT ![i] =
            [signal |-> @.signal, identity |-> @.identity,
             pc |-> IF outcome = "invalid" THEN "threw" ELSE "returned",
             result |-> CASE outcome = "proof" ->
                                BridgeResponse(RequestBody(@.signal, @.identity))
                          [] outcome = "empty" -> EmptyObject
                          [] outcome = "invalid" -> NoResult]]
    /\ UNCHANGED <<browser, bridgeUrl, storage, uuids, sent, verified, outsideClient>>

\* the user or another script of the page rewrites or removes the entry
StorageTexts == {NoItem, EmptyText, GarbageText, JsonStringify(Null), JsonStringify(EmptyObject)}

StorageChanged(text) ==
    /\ IsBrowser
    /\ storage # text
    /\ storage' = text
    /\ UNCHANGED <<browser, bridgeUrl, uuids, requests, sent, verified, outsideClient>>

\* verifyProof(_proof, _publicSignals) of the client
VerifyProofReturn(proof, publicSignals) == TRUE

\* verifyProof(_proof, _publicSignals) of core/src/lib/trustBridge.ts
CoreVerifyProofReturn(proof, publicSignals) == TRUE

ReturnedRequests == {i \in 1..Len(requests) : requests[i].pc = "returned"}

\* what a caller may hand to verifyProof: nothing of use, or the proof of an
\* answer it holds with the public signals of that answer or without them
HeldInputs ==
    {<<EmptyObject, EmptyObject>>, <<Undefined, Undefined>>}
        \cup {<<Field(requests[i].result, "proof"), Field(requests[i].result, "publicSignals")>> :
                i \in ReturnedRequests}
        \cup {<<Field(requests[i].result, "proof"), EmptyObject>> : i \in ReturnedRequests}

VerifyProof(proof, publicSignals) ==
    /\ verified' = <<[fn |-> "client", proof |-> proof, publicSignals |-> publicSignals,
                      result |-> VerifyProofReturn(proof, publicSignals)]>>
    /\ UNCHANGED <<browser, bridgeUrl, storage, uuids, requests, sent, outsideClient>>

CoreVerifyProof(proof, publicSignals) ==
    /\ verified' = <<[fn |-> "core", proof |-> proof, publicSignals |-> publicSignals,
                      result |-> CoreVerifyProofReturn(proof, publicSignals)]>>
    /\ UNCHANGED <<browser, bridgeUrl, storage, uuids, requests, sent, outsideClient>>

(***************************************************************************)
(* ConductMeGroup.export and ConductMeGroup.import                         *)
(***************************************************************************)
\* the integer of a magnitude (the values of leaves are small)
RECURSIVE NatOfMag(_)
NatOfMag(m) == IF m = <<>> THEN 0 ELSE Head(m) + LimbBase * NatOfMag(Tail(m))

\* the leaves of a tree as bigints
LeavesOf(ns) == [i \in 1..Len(ns[1]) |-> NatOfMag(ns[1][i].mag)]

\* v.toString() of a node: the decimal digits of a leaf, and the decimal text
\* of a hash, which stands for that hash alone
NodeToString(v) ==
    IF IsNum(v) THEN [digits |-> DecimalOf(NatOfMag(v.mag))] ELSE [decimalOf |-> v]

\* BigInt(text) of such a text
StringToBigInt(t) ==
    IF "digits" \in DOMAIN t THEN FNat(BigIntOf(t.digits)) ELSE t.decimalOf

\* Group.export(): LeanIMT.export(), the JSON text of the nodes with every
\* bigint as its decimal string
LeanImtExport(ns) ==
    JsonStringify([l \in 1..Len(ns) |-> [i \in 1..Len(ns[l]) |-> NodeToString(ns[l][i])]])

\* Group.import(text): LeanIMT.import, which parses the text and turns every
\* string back into a bigint; no hash is computed
LeanImtImport(text) ==
    LET parsed == JsonParse(text)
    IN  [l \in 1..Len(parsed) |-> [i \in 1..Len(parsed[l]) |-> StringToBigInt(parsed[l][i])]]

\* the id of the one group
GroupId == "humans"

\* export()
GroupExport(groupId, ns) ==
    JsonStringify([type |-> "object", groupId |-> groupId, groupData |-> LeanImtExport(ns)])

\* an import that keeps the new, empty Group of the constructor
GroupImportFresh(data) == [groupId |-> JsonParse(data).groupId, nodes |-> EmptyTree]

\* ConductMeGroup.import(data)
GroupImport(data) ==
    [groupId |-> JsonParse(data).groupId, nodes |-> LeanImtImport(JsonParse(data).groupData)]

\* getRoot() of a group with these nodes: root.toString()
GetRootString(ns) == NodeToString(NodesRoot(ns))

NoExport == [none |-> TRUE]
NoGroup == [none |-> TRUE]

\* export() of the group, kept with the tree it was taken of
ExportGroup ==
    /\ saved' = [text |-> GroupExport(GroupId, imt), of |-> imt]
    /\ UNCHANGED <<restored, outsidePersist>>

\* ConductMeGroup.import of the text exported last
ImportGroup ==
    /\ saved # NoExport
    /\ restored' = [group |-> GroupImport(saved.text), of |-> saved.of]
    /\ UNCHANGED <<saved, outsidePersist>>

(***************************************************************************)
(* createIdentity, recoverIdentity and deriveFromHonestlyProof over        *)
(* @semaphore-protocol/identity.  Strings and byte arrays are records: a   *)
(* string is given by its characters, by the bytes it is the base64 text   *)
(* of, or by what it is the hex text of.                                   *)
(***************************************************************************)
Text(s) == [type |-> "text", chars |-> s]

\* ethers.hexlify(ethers.randomBytes(32)) of the n-th draw
RandomHex(n) == [type |-> "text", hexOfDraw |-> n]

\* a 0x string of 32 bytes
Bytes32(n) == [type |-> "text", hexOfBytes32 |-> n]
IsBytes32(text) == "hexOfBytes32" \in DOMAIN text

\* ethers.keccak256(AbiCoder.encode(['bytes32', 'bytes32'], [a, b]))
Keccak256Encoded(a, b) == [type |-> "text", hexOfKeccak |-> <<a, b>>]

\* the bytes of a string in UTF-8
Utf8(text) == [type |-> "bytes", utf8 |-> text]

\* @zk-kit/utils conversions
TextToBase64(text) == [type |-> "text", base64 |-> Utf8(text)]
BufferToBase64(bytes) == [type |-> "text", base64 |-> bytes]
Base64ToBuffer(text) ==
    IF "base64" \in DOMAIN text THEN text.base64 ELSE [type |-> "bytes", decodedFrom |-> text]

\* the EdDSA key material: a string key stands for its UTF-8 bytes
KeyBytes(privateKey) == IF privateKey.type = "text" THEN Utf8(privateKey) ELSE privateKey

\* new Identity(privateKey): secret scalar and public key are derived from the
\* key bytes, the commitment is the Poseidon hash of the public key
SemaphoreIdentity(privateKey) ==
    [privateKey |-> privateKey,
     secretScalar |-> [kind |-> "scalar", of |-> KeyBytes(privateKey)],
     commitment |-> Poseidon(<<[kind |-> "publicKey", of |-> KeyBytes(privateKey)]>>)]

\* identity.export(): the key as base64 text
IdentityExport(identity) ==
    IF identity.privateKey.type = "text" THEN TextToBase64(identity.privateKey)
    ELSE BufferToBase64(identity.privateKey)

\* an import that takes the text itself as the key
IdentityImportAsText(text) == SemaphoreIdentity(text)

\* Identity.import(privateKey): the identity of the decoded bytes
IdentityImport(text) == SemaphoreIdentity(Base64ToBuffer(text))

\* entropy || hexlify(randomBytes(32)): undefined and "" are both falsy
NoEntropy == [type |-> "undefined"]
IsFalsy(entropy) == entropy = NoEntropy \/ entropy = Text("")
SeedOf(entropy, n) == IF IsFalsy(entropy) THEN RandomHex(n) ELSE entropy

\* createIdentity(entropy) at time now, the randomness drawn being the n-th
CreateIdentityReturn(entropy, n, now) ==
    LET identity == SemaphoreIdentity(SeedOf(entropy, n))
    IN  [commitment |-> identity.commitment, privateKey |-> IdentityExport(identity),
         secretScalar |-> identity.secretScalar, createdAt |-> now, verified |-> FALSE]

\* recoverIdentity(privateKey)
RecoverIdentityReturn(privateKey, now) ==
    LET identity == IdentityImport(privateKey)
    IN  [commitment |-> identity.commitment, privateKey |-> privateKey,
         secretScalar |-> identity.secretScalar, createdAt |-> now, verified |-> TRUE]

\* a derivation that calls createIdentity() without the seed
DeriveSeedForgotten(proofCommitment, salt) == NoEntropy

\* deriveFromHonestlyProof: the seed handed to createIdentity
DeriveSeed(proofCommitment, salt) == Keccak256Encoded(proofCommitment, salt)

\* AbiCoder.encode throws for a value that is not 32 bytes
DeriveThrows(proofCommitment, salt) == ~IsBytes32(proofCommitment) \/ ~IsBytes32(salt)

NoIdentityReturned == [none |-> TRUE]

CreateIdentity(entropy) ==
    /\ Len(made) < MaxIdentityCalls
    /\ made' = Append(made, [op |-> "create", arg |-> entropy, threw |-> FALSE,
                             id |-> CreateIdentityReturn(entropy, draws + 1, Len(made))])
    /\ draws' = IF IsFalsy(entropy) THEN draws + 1 ELSE draws
    /\ UNCHANGED outsideIdentity

RecoverIdentity(privateKey) ==
    /\ Len(made) < MaxIdentityCalls
    /\ made' = Append(made, [op |-> "recover", arg |-> privateKey, threw |-> FALSE,
                             id |-> RecoverIdentityReturn(privateKey, Len(made))])
    /\ UNCHANGED <<draws, outsideIdentity>>

DeriveFromHonestlyProof(proofCommitment, salt) ==
    /\ Len(made) < MaxIdentityCalls
    /\ IF DeriveThrows(proofCommitment, salt)
       THEN /\ made' = Append(made, [op |-> "derive", arg |-> <<proofCommitment, salt>>,
                                     threw |-> TRUE, id |-> NoIdentityReturned])
            /\ draws' = draws
       ELSE /\ made' = Append(made,
                    [op |-> "derive", arg |-> <<proofCommitment, salt>>, threw |-> FALSE,
                     id |-> CreateIdentityReturn(DeriveSeed(proofCommitment, salt),
                                                 draws + 1, Len(made))])
            /\ draws' = IF IsFalsy(DeriveSeed(proofCommitment, salt))
                        THEN draws + 1 ELSE draws
    /\ UNCHANGED outsideIdentity

Entropies == {NoEntropy, Text(""), Text("alice"), Text("bob")}

\* the keys handed to recoverIdentity: the privateKey of an identity made before
PrivateKeysMade == {made[i].id.privateKey : i \in {j \in 1..Len(made) : ~made[j].threw}}

ProofCommitments == {Bytes32(1), Bytes32(2), Text("0x12")}
Salts == {Bytes32(7), Bytes32(8)}

(***************************************************************************)
(* readQuery and writeQuery over neo4j-driver.  Each call opens a session  *)
(* of its own; session.run and session.close are awaited, so calls         *)
(* interleave at these two places.  session.close() resolves.              *)
(***************************************************************************)
\* getSession(): driver.session()
GetSession == [open |-> TRUE, closeCalls |-> 0]

\* session.close()
SessionClose(session) == [open |-> FALSE, closeCalls |-> session.closeCalls + 1]

\* what session.run settles with: a result with records, or a rejection
RunOutcomes == {"records", "rejects"}

\* result.records.map(record => record.toObject()), and the error thrown
RecordsOf(query) == [rows |-> query]
ErrorOf(query) == [error |-> query]
Nothing == [none |-> TRUE]

\* a body without finally: the session is closed after a result only
AfterRunNoFinally(outcome) == IF outcome = "rejects" THEN "threw" ELSE "awaitClose"

\* try { ... } finally { await session.close() }: where the call goes when
\* session.run has settled
AfterRun(outcome) == "awaitClose"

\* readQuery / writeQuery up to the await of session.run
StartQuery(fn, query) ==
    /\ Len(queries) < MaxQueries
    /\ queries' = Append(queries,
            [fn |-> fn, query |-> query, pc |-> "awaitRun", session |-> GetSession,
             ran |-> "", value |-> Nothing, thrown |-> Nothing])
    /\ UNCHANGED outsideQueries

\* readQuery(query, params)
ReadQuery(query) == StartQuery("readQuery", query)

\* writeQuery(query, params)
WriteQuery(query) == StartQuery("writeQuery", query)

\* session.run settles: the finally block calls session.close() and awaits it
RunSettles(i, outcome) ==
    /\ queries[i].pc = "awaitRun"
    /\ queries' = [queries EXCEPT ![i] =
            [fn |-> @.fn, query |-> @.query, pc |-> AfterRun(outcome),
             session |-> IF AfterRun(outcome) = "awaitClose"
                         THEN SessionClose(@.session) ELSE @.session,
             ran |-> outcome,
             value |-> Nothing,
             thrown |-> IF AfterRun(outcome) = "threw" THEN ErrorOf(@.query) ELSE Nothing]]
    /\ UNCHANGED outsideQueries

\* session.close() settles: the call returns the records or rethrows the error
CloseSettles(i) ==
    /\ queries[i].pc = "awaitClose"
    /\ queries' = [queries EXCEPT ![i] =
            [fn |-> @.fn, query |-> @.query, session |-> @.session, ran |-> @.ran,
             pc |-> IF @.ran = "records" THEN "returned" ELSE "threw",
             value |-> IF @.ran = "records" THEN RecordsOf(@.query) ELSE Nothing,
             thrown |-> IF @.ran = "records" THEN Nothing ELSE ErrorOf(@.query)]]
    /\ UNCHANGED outsideQueries

Cyphers == {"MATCH", "CREATE"}

NoQueries == queries = <<>>

NextQueries ==
    \/ \E query \in Cyphers : ReadQuery(query)
    \/ \E query \in Cyphers : WriteQuery(query)
    \/ \E i \in 1..Len(queries) : \E outcome \in RunOutcomes : RunSettles(i, outcome)
    \/ \E i \in 1..Len(queries) : CloseSettles(i)

(***************************************************************************)
(* Specifications                                                          *)
(***************************************************************************)
InitRegistry ==
    /\ registries = <<NewRegistry>>
    /\ imported = <<<<>>>>
    /\ calls = <<>>
    /\ ret = NoReturn
    /\ exported = <<>>

InitCallers == caller = [c \in Callers |-> Idle]

NoHumanity == hw = NoWitness /\ hp = NotProved

NoAge == aw = NoWitness /\ ap = NotProved

\* new ConductMeGroup(groupId): an empty Group
InitGroup ==
    /\ leaves = <<>> /\ opLog = <<>> /\ verifyLog = <<>>
    /\ gens = [k \in Identities |-> NotGenerated]
    /\ imt = EmptyTree /\ saved = NoExport /\ restored = NoGroup

NoSubmissions == submissions = <<>>

NoRequests ==
    /\ storage = NoItem
    /\ uuids = 0
    /\ requests = <<>>
    /\ sent = <<>>
    /\ verified = <<>>

NoClient == browser = FALSE /\ bridgeUrl = FALSE /\ NoRequests

NoCircuit == cw = NoWitness /\ cp = NotProved

NoIdentities == made = <<>> /\ draws = 0

Init ==
    /\ InitRegistry /\ InitCallers /\ NoHumanity /\ NoAge /\ InitGroup /\ NoQueries
    /\ NoSubmissions
    /\ NoClient /\ NoCircuit /\ NoIdentities

NextRegistry ==
    \/ \E r \in 1..MaxRegistries, n \in Nullifiers, s \in Scopes : MarkUsed(r, n, s)
    \/ \E r \in 1..MaxRegistries, n \in Nullifiers : IsUsed(r, n)
    \/ \E r \in 1..MaxRegistries : Export(r)
    \/ \E list \in ImportLists \cup {exported} : Import(list)

\* sequential use of the registry API
SpecRegistry == Init /\ [][NextRegistry]_vars

NextCallers ==
    \/ \E c \in Callers, n \in Nullifiers : Invoke(c, n)
    \/ \E c \in Callers : RunMarkUsed(c)

\* concurrent callers on one registry
SpecCallers == Init /\ [][NextCallers]_vars

NextGroup ==
    \/ \E c \in CommitmentStrings : AddMember(c)
    \/ \E c \in CommitmentStrings : RemoveMember(c)
    \/ \E k \in Identities, s \in Signals, e \in ExternalNullifiers : GenerateStart(k, s, e)
    \/ \E k \in Identities : GenerateFinish(k)
    \/ \E k \in Identities, how \in Hows : Verify(k, how)

\* one ConductMeGroup, its members and the proofs made and verified with it
SpecGroup == Init /\ [][NextGroup]_vars

NextTree ==
    \/ \E c \in CommitmentStrings : AddMember(c)
    \/ \E c \in CommitmentStrings : RemoveMember(c)
    \/ ExportGroup
    \/ ImportGroup

\* one ConductMeGroup whose members come and go, exported and imported again
SpecTree == Init /\ [][NextTree]_vars

NextSubmissions == \E name \in Circuits : \E w \in Witnesses(name) : SubmitProof(name, w)

\* proofs of the nullifier circuits handed to one verifier
SpecSubmissions == Init /\ [][NextSubmissions]_vars

\* the client in or outside a browser, with or without a bridge configured
InitClient ==
    /\ InitRegistry /\ InitCallers /\ NoHumanity /\ NoAge /\ InitGroup /\ NoQueries
    /\ NoSubmissions
    /\ browser \in BOOLEAN
    /\ bridgeUrl \in BOOLEAN
    /\ NoRequests
    /\ NoCircuit /\ NoIdentities

NextClient ==
    \/ \E signal \in Signals : RequestProof(signal)
    \/ \E i \in 1..Len(requests) : ResumeLoaded(i)
    \/ \E i \in 1..Len(requests) : ResumeCreated(i)
    \/ \E i \in 1..Len(requests) : \E outcome \in FetchOutcomes : FetchSettles(i, outcome)
    \/ \E i \in 1..Len(requests) : \E outcome \in JsonOutcomes : JsonSettles(i, outcome)
    \/ \E text \in StorageTexts : StorageChanged(text)
    \/ \E in \in HeldInputs : VerifyProof(in[1], in[2])
    \/ \E in \in HeldInputs : CoreVerifyProof(in[1], in[2])

SpecClient == InitClient /\ [][NextClient]_vars

\* everything but the circuit of cw as it is at the start
NextRequests ==
    \/ \E signal \in Signals : RequestProof(signal)
    \/ \E i \in 1..Len(requests) : ResumeLoaded(i)
    \/ \E i \in 1..Len(requests) : ResumeCreated(i)
    \/ \E i \in 1..Len(requests) : \E outcome \in FetchOutcomes : FetchSettles(i, outcome)
    \/ \E i \in 1..Len(requests) : \E outcome \in JsonOutcomes : JsonSettles(i, outcome)

\* requestProof calls of one page, nothing else touching the stored entry
SpecRequests == InitClient /\ [][NextRequests]_vars

\* readQuery and writeQuery calls that overlap
SpecQueries == Init /\ [][NextQueries]_vars

NoOthers ==
    /\ InitRegistry /\ InitCallers /\ NoHumanity /\ NoAge /\ InitGroup /\ NoQueries
    /\ NoSubmissions
    /\ NoClient /\ NoIdentities

NextAntiSybil ==
    \E w \in SybilInputs : \E policy \in SybilPolicies : SubmitAntiSybil(w, policy)

\* AntiSybil proofs handed to a verifier that tracks nullifiers
SpecAntiSybil == Init /\ [][NextAntiSybil]_vars

NextIdentity ==
    \/ \E entropy \in Entropies : CreateIdentity(entropy)
    \/ \E privateKey \in PrivateKeysMade : RecoverIdentity(privateKey)
    \/ \E proofCommitment \in ProofCommitments : \E salt \in Salts :
            DeriveFromHonestlyProof(proofCommitment, salt)

\* calls of the three identity functions
SpecIdentity == Init /\ [][NextIdentity]_vars

NextRegistryProofs == \E ls \in RegTrees : \E s \in RegSecrets : SubmitRegistryProof(ls, s)

\* HumanityRegistry proofs of the members of a tree that changes between
\* proofs, handed to a verifier that tracks nullifiers
SpecRegistryProofs == Init /\ [][NextRegistryProofs]_vars

InitMerkle ==
    /\ NoOthers
    /\ cw \in {[name |-> "registry", w |-> in.w, tree |-> in.tree, index |-> in.index] :
                in \in RegistryInputs}
    /\ cp = NotProved

\* HumanityRegistry(TreeLevels) proved on each of the inputs
SpecMerkle == InitMerkle /\ [][ProveCircuit]_vars

InitReputation ==
    /\ NoOthers
    /\ cw \in [name : {"reputation"}, w : ReputationInputs]
    /\ cp = NotProved

\* AgentReputation(7) proved on each of the inputs
SpecReputation == InitReputation /\ [][ProveCircuit]_vars

InitHumanity ==
    /\ InitRegistry /\ InitCallers /\ NoAge /\ InitGroup /\ NoQueries
    /\ NoSubmissions /\ NoClient
    /\ NoCircuit /\ NoIdentities
    /\ hw \in HumanityInputs
    /\ hp = NotProved

\* ProofOfHumanity on every input of HumanityInputs
SpecHumanity == InitHumanity /\ [][ProveHumanity]_vars

InitAge ==
    /\ InitRegistry /\ InitCallers /\ NoHumanity /\ InitGroup /\ NoQueries
    /\ NoSubmissions /\ NoClient
    /\ NoCircuit /\ NoIdentities
    /\ aw \in AgeInputs
    /\ ap = NotProved

\* AgeProofLevel3 on every input of AgeInputs
SpecAge == InitAge /\ [][ProveAge]_vars

(***************************************************************************)
(* Claims about the NullifierRegistry                                      *)
(***************************************************************************)
\* the entries of the call log before position j, on the same instance and nullifier
Earlier(j) == {i \in 1..(j - 1) : calls[i].reg = calls[j].reg /\ calls[i].n = calls[j].n}

WasImported(r, n) == \E k \in 1..Len(imported[r]) : imported[r][k] = n

\* C1 as stated: of two markUsed calls with the same (nullifier, scope) the first
\* returns true and the second false, and two calls with the same nullifier under
\* two different scopes return true both times.
C1_UniquePerScope ==
    \A j \in 1..Len(calls) :
        LET sameScope == {i \in Earlier(j) : calls[i].scope = calls[j].scope}
        IN  /\ sameScope # {} => calls[j].result = FALSE
            /\ (sameScope = {} /\ ~WasImported(calls[j].reg, calls[j].n))
                  => calls[j].result = TRUE

\* C1 amended: markUsed sees the nullifier only. Of two calls with the same
\* nullifier on one registry the first returns true (when the nullifier was not
\* recorded before) and the second false, whatever the scopes; calls whose
\* nullifiers differ do not affect each other.
C1_UniquePerNullifier ==
    \A j \in 1..Len(calls) :
        /\ Earlier(j) # {} => calls[j].result = FALSE
        /\ (Earlier(j) = {} /\ ~WasImported(calls[j].reg, calls[j].n))
              => calls[j].result = TRUE

\* C1 witness: the same nullifier was marked on one registry under two different
\* scopes; the first call returned true and the second false.
C1_Witness ==
    /\ Len(calls) = 2
    /\ calls[1].reg = calls[2].reg /\ calls[1].n = calls[2].n
    /\ calls[1].scope # calls[2].scope
    /\ calls[1].result = TRUE /\ calls[2].result = FALSE

\* the callers whose call of markUsed(n) has returned, and those it returned true to
Returned(n) == {c \in Callers : caller[c].at = "returned" /\ caller[c].n = n}
Winners(n) == {c \in Returned(n) : caller[c].result = TRUE}

\* C2: under every interleaving of concurrent callers that call markUsed with the
\* same nullifier (not recorded before) on one registry, exactly one call returns
\* true and all the others return false.
C2_AtomicCheckAndSet ==
    \A n \in Nullifiers :
        /\ Returned(n) # {} => Cardinality(Winners(n)) = 1
        /\ Returned(n) # {} => SetHas(registries[1], n)

\* C2 witness: all callers raced on one nullifier, all calls returned, and the call
\* that won is the last caller's, the other two lost.
C2_Witness ==
    /\ \A c \in Callers : caller[c].at = "returned" /\ caller[c].n = "n1"
    /\ Winners("n1") = {NumCallers}

\* C3: once a nullifier is recorded (markUsed returned true, or it was in the array
\* given to import), isUsed is true and markUsed is false for it ever after, and no
\* step removes an entry of any registry.
C3_Recorded ==
    /\ \A j \in 1..Len(calls) :
          calls[j].result = TRUE =>
              /\ IsUsedReturn(registries[calls[j].reg], calls[j].n) = TRUE
              /\ MarkUsedReturn(registries[calls[j].reg], calls[j].n) = FALSE
    /\ \A r \in 1..Len(registries) : \A k \in 1..Len(imported[r]) :
          /\ IsUsedReturn(registries[r], imported[r][k]) = TRUE
          /\ MarkUsedReturn(registries[r], imported[r][k]) = FALSE

C3_NoRemoval ==
    \A r \in 1..Len(registries) : \A n \in Nullifiers :
        SetHas(registries[r], n) => SetHas(registries'[r], n)

C3_PermanentReplayPrevention == [](C3_Recorded) /\ [][C3_NoRemoval]_vars

\* C3 witness: a nullifier recorded by markUsed was refused later, a registry was
\* built by import from a non-empty array, and export and isUsed have run since.
C3_Witness ==
    /\ Len(calls) >= 2
    /\ calls[1].result = TRUE
    /\ calls[2].reg = calls[1].reg /\ calls[2].n = calls[1].n /\ calls[2].result = FALSE
    /\ Len(registries) = 2 /\ Len(imported[2]) > 0
    /\ exported # <<>>
    /\ ret.op = "isUsed" /\ ret.value = TRUE

(***************************************************************************)
(* Claims about the circuits                                               *)
(***************************************************************************)
\* C8 as stated: whenever referenceTs - birthTs >= minAge * secondsPerYear the age
\* circuit is satisfiable with verified = 1; one second below the threshold it is
\* not; and it compares the age in years with minAge, so every accepted witness
\* is at least minAge years old.
C8_AgeThreshold ==
    ap # NotProved =>
        LET age == aw.referenceTs - aw.birthTs
            threshold == aw.minAge * SecondsPerYear
        IN  /\ age >= threshold => (ap.sat /\ ap.out.verified = 1)
            /\ age = threshold - 1 => ~ap.sat
            /\ ap.sat => age >= threshold

\* C9: for timestamp, currentTime and maxAge within 64 bits the freshness
\* constraints of ProofOfHumanity can be met exactly when timestamp <= currentTime
\* and currentTime - timestamp < maxAge.
C9_FreshnessWindow ==
    (hp # NotProved /\ InBits(hw.timestamp, 64) /\ InBits(hw.currentTime, 64)
                    /\ InBits(hw.maxAge, 64))
        => (hp.fresh <=> (/\ IntLeq(hw.timestamp, hw.currentTime)
                          /\ IntLess(FSub(hw.currentTime, hw.timestamp), hw.maxAge)))

\* C9 witness: a timestamp one second in the future, which the age comparator
\* alone lets through (the negative age wraps), is rejected.
C9_Witness ==
    /\ hp # NotProved
    /\ hw.timestamp = FNat(101) /\ hw.currentTime = FNat(100) /\ hw.maxAge = FNat(300)
    /\ HAgeCheck(hw).sat /\ HAgeCheck(hw).out = 1
    /\ ~hp.fresh

\* C10: no assignment with livenessResult # 1 or with identityCommitment other than
\* Hash(identitySecret) satisfies ProofOfHumanity, and every satisfying assignment
\* has nullifierHash = Hash(identitySecret, scope, externalNullifier),
\* timestampOut = timestamp and scopeOut = scope.
C10_HumanityHardConstraints ==
    hp # NotProved =>
        /\ hw.livenessResult # FNat(1) => ~hp.sat
        /\ hw.identityCommitment # Poseidon(<<hw.identitySecret>>) => ~hp.sat
        /\ hp.sat =>
              /\ hp.out.nullifierHash
                    = Poseidon(<<hw.identitySecret, hw.scope, hw.externalNullifier>>)
              /\ hp.out.timestampOut = hw.timestamp
              /\ hp.out.scopeOut = hw.scope

\* C10 witness: a proof exists for the second secret under the second scope.
C10_Witness ==
    /\ hp # NotProved /\ hp.sat
    /\ hw.identitySecret = FNat(12) /\ hw.scope = FNat(2)
    /\ hp.out.nullifierHash = Poseidon(<<FNat(12), FNat(2), FNat(7)>>)

(***************************************************************************)
(* Claims about the ConductMeGroup                                         *)
(***************************************************************************)
\* the calls among the first n of opLog that added, and that removed, member c
Adds(c, n) == {i \in 1..n : opLog[i].op = "add" /\ opLog[i].member = c /\ ~opLog[i].threw}
Removes(c, n) == {i \in 1..n : opLog[i].op = "remove" /\ opLog[i].member = c}

\* c was added once and removed afterwards
AddedThenRemoved(c, n) ==
    /\ Cardinality(Adds(c, n)) = 1
    /\ \E i \in Adds(c, n) : \E j \in Removes(c, n) : i < j

\* C6: after addMember(c), generateMembershipProof for the identity with
\* commitment c succeeds and verifyMembershipProof of its proof returns true;
\* after removeMember(c), generateMembershipProof for that identity throws, so no
\* proof made after the removal is ever verified.
C6_EndToEndMembership ==
    /\ \A k \in Identities :
          gens[k].status # "none" =>
              /\ (Adds(CommitmentOfKey(k), gens[k].at) # {}
                      /\ Removes(CommitmentOfKey(k), gens[k].at) = {})
                    => gens[k].status # "threw"
              /\ AddedThenRemoved(CommitmentOfKey(k), gens[k].at)
                    => gens[k].status = "threw"
    /\ \A v \in 1..Len(verifyLog) :
          /\ (verifyLog[v].how = "asis" /\ ~verifyLog[v].stale)
                => verifyLog[v].result = "true"
          /\ verifyLog[v].result = "true"
                => ~AddedThenRemoved(CommitmentOfKey(verifyLog[v].key), verifyLog[v].at)

\* C6 witness: the first identity was added to the empty group, its proof was
\* generated and verified, it was removed, and the second generateMembershipProof
\* threw.
C6_Witness ==
    /\ Len(opLog) = 2
    /\ opLog[1] = [op |-> "add", member |-> CommitmentOfKey(1), found |-> FALSE,
                    threw |-> FALSE]
    /\ opLog[2] = [op |-> "remove", member |-> CommitmentOfKey(1), found |-> TRUE,
                    threw |-> FALSE]
    /\ verifyLog = <<[key |-> 1, how |-> "asis", at |-> 1, stale |-> FALSE, result |-> "true"]>>
    /\ gens[1].at = 2 /\ gens[1].status = "threw"

\* C7 as stated: when the group's root has changed between generateMembershipProof
\* and verifyMembershipProof, verifyMembershipProof returns false for the proof
\* made against the earlier root.
C7_StaleRootRejected ==
    \A v \in 1..Len(verifyLog) :
        (verifyLog[v].how = "asis" /\ verifyLog[v].stale) => verifyLog[v].result = "false"

\* C4 as stated: for each circuit with a nullifier output, two satisfying witnesses
\* for the same identity and the same scope give the same nullifier, so the
\* registry refuses the second proof, whatever the other witness values are.
C4_OneNullifierPerIdentityAndScope ==
    \A i, j \in 1..Len(submissions) :
        (/\ i < j
         /\ submissions[i].circuit = submissions[j].circuit
         /\ submissions[i].identity = submissions[j].identity
         /\ submissions[i].scope = submissions[j].scope)
            => /\ submissions[i].nullifier = submissions[j].nullifier
               /\ ~submissions[j].accepted

\* C5 as stated: verifyProof never returns true for a proof that is malformed, has
\* public signals that do not fit it, or is not the answer of the prover to a
\* request that was sent.
ProvedFor(proof) ==
    \E b \in 1..Len(sent) : proof = BridgeProof(sent[b])

C5_VerifyFailsClosed ==
    \A v \in 1..Len(verified) :
        verified[v].result
            => /\ ProvedFor(verified[v].proof)
               /\ \E b \in 1..Len(sent) :
                    /\ verified[v].proof = BridgeProof(sent[b])
                    /\ verified[v].publicSignals = BridgeSignals(sent[b])

(***************************************************************************)
(* Claims about the other circuits                                         *)
(***************************************************************************)
InRange7(k) == 0 <= k /\ k <= 127

SybilAccepted(policy, id, epoch) ==
    {i \in 1..Len(submissions) :
        /\ submissions[i].policy = policy /\ submissions[i].accepted
        /\ submissions[i].identity = id /\ submissions[i].epoch = epoch}

\* C12: when the registry deduplicates epochNullifier, an identity has at most one
\* accepted AntiSybil proof per epoch, whatever the actionId; when it deduplicates
\* actionNullifier, at most one per epoch and actionId.
C12_OneProofPerEpoch ==
    \A i, j \in 1..Len(submissions) :
        /\ (/\ i \in SybilAccepted("epoch", submissions[i].identity, submissions[i].epoch)
            /\ j \in SybilAccepted("epoch", submissions[i].identity, submissions[i].epoch))
              => i = j
        /\ (/\ i \in SybilAccepted("action", submissions[i].identity, submissions[i].epoch)
            /\ j \in SybilAccepted("action", submissions[i].identity, submissions[i].epoch)
            /\ submissions[i].actionId = submissions[j].actionId)
              => i = j

\* C12 witness: the same identity handed in two proofs for one epoch and two
\* different actions; the verifier deduplicating epochNullifier refused the second
C12_Witness ==
    /\ Len(submissions) = 2
    /\ submissions[1].policy = "epoch" /\ submissions[2].policy = "epoch"
    /\ submissions[1].identity = submissions[2].identity
    /\ submissions[1].epoch = submissions[2].epoch
    /\ submissions[1].actionId # submissions[2].actionId
    /\ submissions[1].accepted /\ ~submissions[2].accepted

\* the recomputation of C13: from the leaf up, an index of 0 puts the current node
\* on the left and 1 puts it on the right
RECURSIVE Recomputed(_, _, _, _)
Recomputed(leaf, elements, indices, i) ==
    IF i = 0 THEN leaf
    ELSE LET below == Recomputed(leaf, elements, indices, i - 1)
         IN  IF indices[i] = FNat(0)
             THEN Poseidon(<<below, elements[i]>>)
             ELSE Poseidon(<<elements[i], below>>)

\* the signals are the path of a member: the secret's commitment is the leaf at
\* cw.index, and indices and root are those of the tree
PathOfMember ==
    /\ cw.index < Len(cw.tree)
    /\ cw.tree[cw.index + 1] = Poseidon(<<cw.w.identitySecret>>)
    /\ cw.w.pathIndices = PathIndicesFor(TreeLevels, cw.index)
    /\ cw.w.root = TreeRoot(cw.tree, TreeLevels)

\* C13: for every member of every tree the recomputation from the member's leaf
\* along its path gives the tree's root, and HumanityRegistry has a proof only
\* when every index is 0 or 1 and the recomputation equals the public root (and
\* it has one then).
C13_MerklePredicate ==
    cp # NotProved =>
        LET up == Recomputed(Poseidon(<<cw.w.identitySecret>>), cw.w.pathElements,
                             cw.w.pathIndices, TreeLevels)
            binary == \A i \in 1..TreeLevels : cw.w.pathIndices[i] \in {FNat(0), FNat(1)}
        IN  /\ PathOfMember => up = TreeRoot(cw.tree, TreeLevels) /\ cp.sat
            /\ cp.sat <=> (binary /\ up = cw.w.root)

\* C13 witness: a proof for the second leaf of a tree of three commitments, whose
\* node is a right child first and a left child next
C13_Witness ==
    /\ cp # NotProved /\ cp.sat
    /\ cw.name = "registry"
    /\ Len(cw.tree) = 3 /\ cw.index = 1
    /\ PathOfMember

(***************************************************************************)
(* Claims about the identity functions                                     *)
(***************************************************************************)
Created == {i \in 1..Len(made) : made[i].op = "create"}
Recovered == {i \in 1..Len(made) : made[i].op = "recover"}
Derived == {i \in 1..Len(made) : made[i].op = "derive" /\ ~made[i].threw}

\* recovering from the privateKey of a created identity gives its commitment and
\* its secretScalar
RoundTrip ==
    \A i \in Created : \A j \in Recovered :
        made[j].arg = made[i].id.privateKey
            => /\ made[j].id.commitment = made[i].id.commitment
               /\ made[j].id.secretScalar = made[i].id.secretScalar

\* C14 as stated: for every entropy value the round trip through recoverIdentity
\* keeps commitment and secretScalar, and two createIdentity calls with the same
\* entropy give the same commitment.
C14_IdentityRoundTrip ==
    /\ RoundTrip
    /\ \A i, j \in Created :
          made[i].arg = made[j].arg => made[i].id.commitment = made[j].id.commitment

\* C14 amended: the round trip holds for every entropy, and two createIdentity
\* calls with the same entropy give the same commitment when the entropy is a
\* non-empty string; with no entropy or the empty string each call draws a fresh
\* random seed, and the two commitments differ.
C14_IdentityRoundTripNonEmpty ==
    /\ RoundTrip
    /\ \A i, j \in Created :
          made[i].arg = made[j].arg
              => (made[i].id.commitment = made[j].id.commitment
                    <=> (i = j \/ ~IsFalsy(made[i].arg)))

\* C14 witness: an identity was created from an entropy and once more from the
\* same entropy, and it was recovered from its exported key
C14_Witness ==
    /\ Len(made) = 3
    /\ made[1].op = "create" /\ made[1].arg = Text("alice")
    /\ made[2].op = "recover" /\ made[2].arg = made[1].id.privateKey
    /\ made[2].id.commitment = made[1].id.commitment
    /\ made[3].op = "create" /\ made[3].arg = Text("alice")
    /\ made[3].id.commitment = made[1].id.commitment

\* C16: two deriveFromHonestlyProof calls with the same proof commitment and salt
\* return the same commitment, and that commitment is the one anybody computes
\* from the pair alone: the identity of the seed keccak256(encode(pair)).
C16_DerivedIdentityLinkable ==
    \A i \in Derived :
        /\ \A j \in Derived : made[i].arg = made[j].arg
                => made[i].id.commitment = made[j].id.commitment
        /\ made[i].id.commitment =
                SemaphoreIdentity(Keccak256Encoded(made[i].arg[1], made[i].arg[2])).commitment

\* C16 witness: the same pair was derived from twice, after a random identity
\* had been created in between
C16_Witness ==
    /\ Len(made) = 3
    /\ 1 \in Derived /\ 3 \in Derived
    /\ made[2].op = "create" /\ IsFalsy(made[2].arg)
    /\ made[1].arg = made[3].arg
    /\ made[1].id.commitment = made[3].id.commitment

(***************************************************************************)
(* Claims about the Trust Bridge client                                    *)
(***************************************************************************)
\* C15 as stated: no value sent to the Trust Bridge, and no nullifierHash returned
\* by requestProof, equals the privateKey of an identity the client uses.
C15_SecretNeverLeaves ==
    \A i \in 1..Len(requests) :
        LET key == Field(requests[i].identity, "privateKey")
        IN  key.type = "string" =>
                /\ \A b \in 1..Len(sent) : sent[b].commitment # key
                /\ Field(requests[i].result, "nullifierHash") # key

(***************************************************************************)
(* Claims about the ConductMeGroup's tree.                                 *)
(***************************************************************************)
\* a removeMember call for a commitment that indexOf did not find
AbsentRemovals == {i \in 1..Len(opLog) : opLog[i].op = "remove" /\ ~opLog[i].found}

\* C17 as the specification states it: removeMember(commitment) fails when
\* the commitment is not in the group; it does not return normally.
C17_RemoveAbsentFails == \A i \in AbsentRemovals : opLog[i].threw

\* the leaves after the first n calls of the log, from the members logged
RECURSIVE LeavesAfter(_)
LeavesAfter(n) ==
    IF n = 0 THEN <<>>
    ELSE LET before == LeavesAfter(n - 1)
             call == opLog[n]
         IN  IF call.threw THEN before
             ELSE IF call.op = "add" THEN Append(before, call.member)
             ELSE IF IndexOf(before, call.member) # 0
                  THEN [before EXCEPT ![IndexOf(before, call.member)] = 0]
                  ELSE before

\* C17 amended: removeMember(commitment) returns normally when the commitment
\* is not in the group, and leaves the group's leaves as they were.
C17_RemoveAbsentReturns ==
    \A i \in AbsentRemovals : ~opLog[i].threw /\ LeavesAfter(i) = LeavesAfter(i - 1)
        /\ LeavesAfter(Len(opLog)) = leaves

\* a member was added and a commitment that is no member was then removed
C17_Witness ==
    \E i \in AbsentRemovals : i > 1 /\ opLog[i - 1].op = "add" /\ ~opLog[i - 1].threw

\* the leaves that hold a commitment now
LiveLeaves == {i \in 1..Len(leaves) : leaves[i] # 0}

\* C18: after any sequence of addMember and removeMember calls, size() is the
\* number of leaves that currently hold a commitment (removed leaves are not
\* counted).
C18_SizeCountsLiveLeaves == Size(imt) = Cardinality(LiveLeaves)

\* C19: the root is a function of the leaf mapping alone.  Whatever sequence
\* of addMember and removeMember calls led to the leaves, the root the group
\* keeps (and getRoot() returns) is the root computed from the leaves at their
\* positions, so two groups with the same mapping have the same root, and it
\* is up to date after every insert and remove.
C19_RootIsFunctionOfLeaves ==
    /\ LeavesOf(imt) = leaves
    /\ NodesRoot(imt) = GroupRoot(leaves)
    /\ GetRootString(imt) = NodeToString(GetRoot(leaves))

\* a removed leaf and a member beside it, the member added after the removal
\* (adding both and removing the first then gives the same leaves)
C19_Witness ==
    /\ Len(leaves) = 2 /\ leaves[1] = 0 /\ leaves[2] # 0
    /\ Len(opLog) = 3 /\ opLog[2].op = "remove" /\ opLog[3].op = "add"

\* the imported group answers getRoot(), size() and hasMember as the group
\* it was exported of
SameAnswers(g, h) ==
    /\ GetRootString(g) = GetRootString(h)
    /\ Size(g) = Size(h)
    /\ \A c \in CommitmentStrings : HasMember(LeavesOf(g), c) = HasMember(LeavesOf(h), c)

NoRepeat(list) == \A i, j \in 1..Len(list) : list[i] = list[j] => i = j

\* two registries answer isUsed and the next markUsed alike for every nullifier
Equivalent(a, b) ==
    \A n \in Nullifiers :
        /\ IsUsedReturn(a, n) = IsUsedReturn(b, n)
        /\ MarkUsedReturn(a, n) = MarkUsedReturn(b, n)

\* C21: for every registry r reachable by markUsed calls,
\* NullifierRegistry.import(r.export()) is equivalent to r, export() lists each
\* recorded nullifier exactly once, and import of a list with repeated entries
\* records each entry once.
C21_RegistryExportImportRoundTrip ==
    /\ \A r \in 1..Len(registries) :
          /\ Equivalent(ImportContents(ExportReturn(registries[r])), registries[r])
          /\ NoRepeat(ExportReturn(registries[r]))
          /\ \A n \in Nullifiers :
                IsUsedReturn(registries[r], n)
                    <=> \E i \in 1..Len(ExportReturn(registries[r])) :
                            ExportReturn(registries[r])[i] = n
    /\ \A j \in 1..Len(imported) :
          /\ NoRepeat(ExportReturn(ImportContents(imported[j])))
          /\ \A n \in Nullifiers :
                IsUsedReturn(ImportContents(imported[j]), n)
                    <=> \E i \in 1..Len(imported[j]) : imported[j][i] = n

\* a registry of two nullifiers was exported and the array imported
C21_Witness ==
    /\ Len(registries) = 2 /\ Len(registries[1]) = 2
    /\ exported = ExportReturn(registries[1])
    /\ imported[2] = exported

\* the nullifiers a registry has recorded
Recorded(used) == {used[i] : i \in 1..Len(used)}

\* every instance but r is as it was
OthersKept(r) ==
    /\ Len(registries') = Len(registries)
    /\ \A q \in 1..Len(registries) : q # r => registries'[q] = registries[q]

\* Every call sets ret to its own name, so ret' tells which call a step is.
\* markUsed changes the instance it is called on as its result says
MarkUsedFrame ==
    ret'.op = "markUsed" =>
        LET r == calls'[Len(calls')].reg
            n == calls'[Len(calls')].n
        IN  /\ Len(calls') = Len(calls) + 1
            /\ OthersKept(r)
            /\ ret'.value = FALSE => registries'[r] = registries[r]
            /\ ret'.value = TRUE =>
                   /\ n \notin Recorded(registries[r])
                   /\ Recorded(registries'[r]) = Recorded(registries[r]) \cup {n}
                   /\ SubSeq(registries'[r], 1, Len(registries[r])) = registries[r]

\* isUsed and export change no registry
ReadFrame == ret'.op \in {"isUsed", "export"} => registries' = registries

\* import adds an instance and changes neither its list nor the others
ImportFrame ==
    ret'.op = "import" =>
        /\ Len(registries') = Len(registries) + 1
        /\ SubSeq(registries', 1, Len(registries)) = registries
        /\ imported'[Len(imported')] \in ImportLists \cup {exported}
        /\ exported' = exported

\* C28: a markUsed call that returns false leaves the recorded nullifiers
\* unchanged; one that returns true adds exactly the given nullifier and
\* nothing else; isUsed and export never change a registry; import never
\* changes the list it is given nor any other registry instance.
C28_RegistryFrame == [][MarkUsedFrame /\ ReadFrame /\ ImportFrame]_vars

\* a markUsed that returned true, a markUsed that returned false, and an
\* import beside the first registry
C28_Witness ==
    /\ Len(calls) = 2 /\ calls[1].result = TRUE /\ calls[2].result = FALSE
    /\ Len(registries) = 2

(***************************************************************************)
(* Claims about the life of a proof request in the client.                 *)
(***************************************************************************)
\* the place of request i in Unproven -> Proving -> {Proved | Failed}: it is
\* Proved when it returned a proof the Trust Bridge made for a body sent
Lifecycle(i) ==
    CASE requests[i].pc \in {"awaitLoad", "awaitCreate"} -> "Unproven"
      [] requests[i].pc \in {"awaitFetch", "awaitJson"} -> "Proving"
      [] requests[i].pc = "threw" -> "Failed"
      [] requests[i].pc = "returned" ->
            IF \E b \in 1..Len(sent) : Field(requests[i].result, "proof") = BridgeProof(sent[b])
            THEN "Proved" ELSE "Failed"

\* verifyProof returned true for what request i returned
ReachedVerified(i) ==
    /\ requests[i].pc = "returned"
    /\ \E v \in 1..Len(verified) :
          /\ verified[v].result
          /\ verified[v].proof = Field(requests[i].result, "proof")
          /\ verified[v].publicSignals = Field(requests[i].result, "publicSignals")

\* C22: only a Proved request becomes Verified; a request that obtained no
\* proof from the prover (no Trust Bridge URL, a failed HTTP response, an
\* answer without a proof) never reaches Verified.
C22_OnlyProvedIsVerified ==
    \A i \in 1..Len(requests) : ReachedVerified(i) => Lifecycle(i) = "Proved"

(***************************************************************************)
(* Claims about the ranges of the circuits' comparators.                   *)
(***************************************************************************)
\* C23: in every satisfying assignment of Age-Level3, Humanity and
\* Reputation both operands of each inequality comparator lie in
\* 0..2^n-1 for the comparator's width n, as the range checks on the
\* operands are said to enforce.
C23_ComparatorOperandsInRange ==
    /\ hp.sat =>
          /\ InBits(HAge(hw), 64) /\ InBits(hw.maxAge, 64)
          /\ InBits(hw.timestamp, 64) /\ InBits(hw.currentTime, 64)
    /\ ap.sat =>
          /\ InBits(AgeYearsScaled(aw), 32)
          /\ InBits(FMul(FNat(aw.minAge), AgeScale), 32)
    /\ (cp.sat /\ cw.name = "reputation") =>
          /\ InBits(FInt(cw.w.reputationScore), ReputationBits)
          /\ InBits(FInt(cw.w.threshold), ReputationBits)

\* C24: the 32-bit range check on the scaled age rejects every witness with
\* birthTs > referenceTs, and accepts every genuine one: for every age in
\* seconds that is not negative and is at least minAge years, the scaled age
\* passes the range check.
C24_AgeRangeCheck ==
    ap # NotProved =>
        /\ aw.birthTs > aw.referenceTs => ~AgeRangeCheck(aw)
        /\ (/\ aw.referenceTs >= aw.birthTs
            /\ aw.referenceTs - aw.birthTs >= aw.minAge * SecondsPerYear)
              => AgeRangeCheck(aw)

(***************************************************************************)
(* Claims about the members of the ConductMeGroup.                         *)
(***************************************************************************)
\* removeMember(c) keeps the number of leaves and every leaf but the first
\* that holds c, which becomes 0
RemoveTombstones ==
    \A c \in CommitmentStrings :
        RemoveMember(c) =>
            /\ Len(LeavesOf(imt')) = Len(LeavesOf(imt))
            /\ \A i \in 1..Len(LeavesOf(imt)) :
                  \/ LeavesOf(imt')[i] = LeavesOf(imt)[i]
                  \/ /\ i = IndexOf(LeavesOf(imt), BigIntOf(c))
                     /\ LeavesOf(imt')[i] = 0
            /\ \A m \in CommitmentStrings :
                  BigIntOf(m) \notin {0, BigIntOf(c)}
                      => IndexOf(LeavesOf(imt'), BigIntOf(m)) = IndexOf(LeavesOf(imt), BigIntOf(m))

\* addMember(c) keeps every leaf there is where it is
AddAppends ==
    \A c \in CommitmentStrings :
        AddMember(c) =>
            /\ SubSeq(LeavesOf(imt'), 1, Len(LeavesOf(imt))) = LeavesOf(imt)
            /\ \A m \in CommitmentStrings :
                  HasMember(LeavesOf(imt), m)
                      => IndexOf(LeavesOf(imt'), BigIntOf(m)) = IndexOf(LeavesOf(imt), BigIntOf(m))

\* C25: removeMember(c) replaces c's leaf by the sentinel 0 and does not
\* compact the tree; the leaf index of every other member is unchanged by any
\* removeMember, and a later addMember never moves an existing member.
C25_Tombstoning == [][RemoveTombstones /\ AddAppends]_vars

\* the first of two members was removed: its leaf is 0 and the other member
\* is still the second leaf
C25_Witness ==
    /\ Len(opLog) = 3 /\ opLog[3].op = "remove" /\ opLog[3].found /\ ~opLog[3].threw
    /\ Len(LeavesOf(imt)) = 2 /\ LeavesOf(imt)[1] = 0 /\ LeavesOf(imt)[2] # 0

\* the member of the call made last was removed by it, or was not there
RemovedLast ==
    /\ opLog # <<>>
    /\ opLog[Len(opLog)].op = "remove"
    /\ ~opLog[Len(opLog)].threw

\* member m was added by a call of the log and removed by none after it
AddedAndKept(m) ==
    \E i \in 1..Len(opLog) :
        /\ opLog[i].op = "add" /\ opLog[i].member = m /\ ~opLog[i].threw
        /\ \A j \in (i + 1)..Len(opLog) :
              ~(opLog[j].op = "remove" /\ opLog[j].member = m /\ ~opLog[j].threw)

\* C26: after removeMember(c) returns, hasMember(c) is false, whatever calls
\* of addMember and removeMember came before (c may have been added more
\* than once); and hasMember(x) is true only for a commitment x that was
\* added and not removed since.
C26_RemovalRevokesMembership ==
    /\ RemovedLast => IndexOf(LeavesOf(imt), opLog[Len(opLog)].member) = 0
    /\ \A x \in CommitmentStrings : HasMember(LeavesOf(imt), x) => AddedAndKept(BigIntOf(x))

(***************************************************************************)
(* Claims about the nullifier of HumanityRegistry.                         *)
(***************************************************************************)
\* the HumanityRegistry proofs submitted
RegistryProofs == {i \in 1..Len(submissions) : submissions[i].circuit = "registry"}

\* C27: the nullifier of HumanityRegistry depends on the identity and the
\* root only: two proofs of one identity against the same root carry the same
\* nullifier and the registry refuses the second; once the root has changed
\* the same identity's nullifier is another one, which the registry takes as
\* fresh.
C27_NullifierScopedToRoot ==
    \A i, j \in RegistryProofs :
        (i < j /\ submissions[i].identity = submissions[j].identity) =>
            /\ submissions[i].root = submissions[j].root
                  => /\ submissions[i].nullifier = submissions[j].nullifier
                     /\ ~submissions[j].accepted
            /\ submissions[i].root # submissions[j].root
                  => /\ submissions[i].nullifier # submissions[j].nullifier
                     /\ (\A k \in RegistryProofs :
                            (k < j /\ submissions[k].identity = submissions[j].identity)
                                => submissions[k].root # submissions[j].root)
                          => submissions[j].accepted

\* one identity proved against two roots and both proofs were accepted
C27_Witness ==
    /\ Len(submissions) = 2
    /\ submissions[1].circuit = "registry" /\ submissions[2].circuit = "registry"
    /\ submissions[1].identity = submissions[2].identity
    /\ submissions[1].root # submissions[2].root
    /\ submissions[1].accepted /\ submissions[2].accepted

(***************************************************************************)
(* Claims about the identity the client keeps.                             *)
(***************************************************************************)
\* the requestProof calls that have their identity
WithTheirIdentity == {i \in 1..Len(requests) : requests[i].pc # "awaitLoad"}

\* C29: in a browser every requestProof call uses the one stored identity
\* (the same commitment in every call) while the stored entry parses, and
\* createIdentity runs only when no identity is stored, overwriting the
\* entry; outside a browser nothing is stored and every call creates a fresh
\* identity.
C29_StableClientIdentity ==
    /\ browser =>
          /\ \A i, j \in WithTheirIdentity :
                Field(requests[i].identity, "commitment")
                    = Field(requests[j].identity, "commitment")
          /\ \A i \in WithTheirIdentity : storage = JsonStringify(requests[i].identity)
          /\ uuids <= 1
    /\ ~browser =>
          /\ storage = NoItem
          /\ \A i, j \in WithTheirIdentity :
                i # j => Field(requests[i].identity, "commitment")
                            # Field(requests[j].identity, "commitment")

(***************************************************************************)
(* Claims about the Neo4j sessions.                                        *)
(***************************************************************************)
\* the calls that have settled
Settled == {i \in 1..Len(queries) : queries[i].pc \in {"returned", "threw"}}

\* C30: every session opened by readQuery or writeQuery is closed exactly once
\* before the call settles, when session.run succeeds and when it throws, and
\* an error of session.run reaches the caller.
C30_NoSessionLeak ==
    /\ \A i \in 1..Len(queries) : queries[i].session.closeCalls <= 1
    /\ \A i \in Settled :
          /\ queries[i].session.closeCalls = 1 /\ ~queries[i].session.open
          /\ queries[i].ran = "rejects" =>
                (queries[i].pc = "threw" /\ queries[i].thrown = ErrorOf(queries[i].query))
          /\ queries[i].ran = "records" =>
                (queries[i].pc = "returned" /\ queries[i].value = RecordsOf(queries[i].query))

\* a readQuery whose session.run threw and a writeQuery that returned have
\* both settled
C30_Witness ==
    \E i, j \in Settled :
        /\ queries[i].fn = "readQuery" /\ queries[i].pc = "threw"
        /\ queries[j].fn = "writeQuery" /\ queries[j].pc = "returned"

====
